---- MODULE Spec2Model ----
(***************************************************************************)
(* Department web-UI servers, the shared ESB client, the two ESB transform *)
(* servers and the terminal workers of the promotion / stock-replenishment *)
(* demo.  The orchestrator (Zeebe) is the environment: it owns the jobs,   *)
(* activates them for a worker and accepts or rejects job.complete.        *)
(***************************************************************************)
EXTENDS Integers, Sequences, FiniteSets, TLC

(***************************************************************************)
(* Bounds of the model.                                                    *)
(***************************************************************************)
MaxKeys == 2
MaxReqs == 2
MaxDeliveries == 2
MaxServed == 3

Keys == 1..MaxKeys
Reqs == 1..MaxReqs

(***************************************************************************)
(* ui-common/esb-client.js: the two base URLs and the routing table.       *)
(***************************************************************************)
ESB1_URL == "http://localhost:3001"
ESB2_URL == "http://localhost:3002"

EndpointMappingAlt ==
  [e \in {"/api/identify-products", "/api/evaluate-profitability",
          "/api/propose-promotion", "/api/prepare-instore",
          "/api/update-physical-prices", "/api/prepare-materials",
          "/api/update-prices", "/api/compute-replenishment",
          "/api/analyze-replenishment", "/api/create-replenishment",
          "/api/process-replenishment", "/api/check-delivery",
          "/api/handle-return", "/api/update-stock-systems"} |->
     IF e \in {"/api/identify-products", "/api/evaluate-profitability",
               "/api/compute-replenishment", "/api/analyze-replenishment"}
     THEN ESB1_URL ELSE ESB2_URL]

endpointMapping ==
  [e \in {"/api/identify-products", "/api/evaluate-profitability",
          "/api/propose-promotion", "/api/prepare-instore",
          "/api/update-physical-prices", "/api/prepare-materials",
          "/api/update-prices", "/api/compute-replenishment",
          "/api/analyze-replenishment", "/api/create-replenishment",
          "/api/verify-stock", "/api/process-replenishment",
          "/api/check-delivery", "/api/handle-return",
          "/api/update-stock-systems"} |->
     IF e \in {"/api/identify-products", "/api/evaluate-profitability",
               "/api/compute-replenishment", "/api/analyze-replenishment"}
     THEN ESB1_URL ELSE ESB2_URL]

(***************************************************************************)
(* The POST routes each ESB registers with app.post.                       *)
(***************************************************************************)
ESB1Routes ==
  {"/api/identify-products", "/api/evaluate-profitability",
   "/api/compute-replenishment", "/api/analyze-replenishment"}

ESB2Routes ==
  {"/api/propose-promotion", "/api/prepare-instore",
   "/api/update-physical-prices", "/api/prepare-materials",
   "/api/update-prices", "/api/create-replenishment", "/api/verify-stock",
   "/api/process-replenishment", "/api/check-delivery", "/api/handle-return",
   "/api/update-stock-systems"}

PostRoutes(baseUrl) ==
  IF baseUrl = ESB1_URL THEN ESB1Routes
  ELSE IF baseUrl = ESB2_URL THEN ESB2Routes ELSE {}

(***************************************************************************)
(* The web-UI servers: the task types their Zeebe workers subscribe to and *)
(* their completion routes.  A route names the ESB endpoint its handler    *)
(* passes to callESB and where, if anywhere, the handler can throw on a    *)
(* malformed body outside the two awaited calls ("pre": before the ESB     *)
(* call, "post": between the ESB response and job.complete).               *)
(***************************************************************************)
Servers ==
  {"data-analysis", "commercial", "finance", "it", "logistics",
   "merchandising"}

DataAnalysisWorkers ==
  <<"identify-products", "compute-replenishment-quantity">>

CommercialWorkers ==
  <<"propose-promotion", "prepare-instore-update", "update-physical-prices">>

FinanceWorkers == <<"evaluate-profitability", "analyze-replenishment">>

ITWorkers == <<"update-system-prices", "update-stock-systems">>

LogisticsWorkers == <<"process-replenishment", "check-delivery", "handle-return">>

MerchandisingWorkers == <<"create-replenishment-request", "verify-stock">>

WorkerTypes(s) ==
  CASE s = "data-analysis" -> DataAnalysisWorkers
    [] s = "commercial" -> CommercialWorkers
    [] s = "finance" -> FinanceWorkers
    [] s = "it" -> ITWorkers
    [] s = "logistics" -> LogisticsWorkers
    [] s = "merchandising" -> MerchandisingWorkers

(* The orchestrator's jobs: job k is of the server's k-th task type, in the *)
(* order the workers are created, cyclically.                               *)
JobTypeOf(s, k) == WorkerTypes(s)[((k - 1) % Len(WorkerTypes(s))) + 1]

Route(p, e, t, th) == [path |-> p, endpoint |-> e, taskType |-> t, throws |-> th]

DataAnalysisRoutes ==
  {Route("/complete-task", "/api/identify-products",
         "identify-products", "post"),
   Route("/complete-stock-task", "/api/compute-replenishment",
         "compute-replenishment-quantity", "never")}

CommercialRoutes ==
  {Route("/complete-task/propose-promotion", "/api/propose-promotion",
         "propose-promotion", "never"),
   Route("/complete-task/prepare-instore-update", "/api/prepare-instore",
         "prepare-instore-update", "post"),
   Route("/complete-task/update-physical-prices",
         "/api/update-physical-prices", "update-physical-prices", "never")}

FinanceRoutes ==
  {Route("/complete-task", "/api/evaluate-profitability",
         "evaluate-profitability", "never"),
   Route("/complete-stock-task", "/api/analyze-replenishment",
         "analyze-replenishment", "never")}

ITRoutes ==
  {Route("/complete-task", "/api/update-prices",
         "update-system-prices", "never"),
   Route("/complete-stock-task", "/api/update-stock-systems",
         "update-stock-systems", "never")}

LogisticsRoutes ==
  {Route("/complete-replenishment", "/api/process-replenishment",
         "process-replenishment", "never"),
   Route("/complete-delivery", "/api/check-delivery",
         "check-delivery", "pre"),
   Route("/complete-return", "/api/handle-return",
         "handle-return", "never")}

MerchandisingRoutes ==
  {Route("/complete-request", "/api/create-replenishment",
         "create-replenishment-request", "never"),
   Route("/complete-verify", "/api/verify-stock",
         "verify-stock", "never")}

CompletionRoutes(s) ==
  CASE s = "data-analysis" -> DataAnalysisRoutes
    [] s = "commercial" -> CommercialRoutes
    [] s = "finance" -> FinanceRoutes
    [] s = "it" -> ITRoutes
    [] s = "logistics" -> LogisticsRoutes
    [] s = "merchandising" -> MerchandisingRoutes

AllRoutes == UNION {CompletionRoutes(s) : s \in Servers}

(***************************************************************************)
(* JavaScript values as the handlers see them in req.body, in a prompt     *)
(* answer or in job.variables.  A string is its sequence of characters.    *)
(* A number is kept in hundredths (Scale), which is exact for the decimal  *)
(* inputs drawn below: their fractions are multiples of 1/4, so the        *)
(* double arithmetic of the handlers is exact on them as well.             *)
(***************************************************************************)
Scale == 10 * 10

Undefined == [t |-> "undefined"]
JNull == [t |-> "null"]
JStr(chars) == [t |-> "string", s |-> chars]
(* a string literal of the code that no handler takes apart *)
Lit(text) == [t |-> "string", lit |-> text]
JBool(b) == [t |-> "boolean", b |-> b]
JNum(n) == [t |-> "number", nan |-> FALSE, n |-> n]
(* an array of values *)
JArr(elems) == [t |-> "array", a |-> elems]
NaN == [t |-> "number", nan |-> TRUE, n |-> 0]

Truthy(v) ==
  CASE v.t \in {"undefined", "null"} -> FALSE
    [] v.t \in {"function", "object", "array"} -> TRUE
    [] v.t = "string" -> IF "lit" \in DOMAIN v THEN v.lit # "" ELSE v.s # <<>>
    [] v.t = "boolean" -> v.b
    [] v.t = "number" -> ~v.nan /\ v.n # 0

(* Property names every object literal inherits from Object.prototype,   *)
(* with String(value) of what a read of them yields.                     *)
ObjectPrototype ==
  {"constructor", "toString", "valueOf", "hasOwnProperty", "__proto__"}

Inherited(name) ==
  CASE name = "constructor" ->
         [t |-> "function", lit |-> "function Object() { [native code] }"]
    [] name = "toString" ->
         [t |-> "function", lit |-> "function toString() { [native code] }"]
    [] name = "valueOf" ->
         [t |-> "function", lit |-> "function valueOf() { [native code] }"]
    [] name = "hasOwnProperty" ->
         [t |-> "function",
          lit |-> "function hasOwnProperty() { [native code] }"]
    [] name = "__proto__" -> [t |-> "object", lit |-> "[object Object]"]

(* The same names as the character strings a computed key is made of. *)
ProtoChars(name) ==
  CASE name = "constructor" ->
         <<"c", "o", "n", "s", "t", "r", "u", "c", "t", "o", "r">>
    [] name = "toString" -> <<"t", "o", "S", "t", "r", "i", "n", "g">>
    [] name = "valueOf" -> <<"v", "a", "l", "u", "e", "O", "f">>
    [] name = "hasOwnProperty" ->
         <<"h", "a", "s", "O", "w", "n", "P", "r", "o", "p", "e", "r", "t", "y">>
    [] name = "__proto__" -> <<"_", "_", "p", "r", "o", "t", "o", "_", "_">>

(* a || b, a && b, !a, a === b *)
JOr(a, b) == IF Truthy(a) THEN a ELSE b
JAnd(a, b) == IF Truthy(a) THEN b ELSE a
JNot(a) == JBool(~Truthy(a))
StrictEq(a, b) == JBool(a = b /\ ~(a.t = "number" /\ a.nan))

Digits == <<"0", "1", "2", "3", "4", "5", "6", "7", "8", "9">>
IsDigit(c) == \E i \in 1..10 : Digits[i] = c
DigitVal(c) == (CHOOSE i \in 1..10 : Digits[i] = c) - 1

RECURSIVE SkipSpaces(_)
SkipSpaces(chars) ==
  IF chars # <<>> /\ Head(chars) = " " THEN SkipSpaces(Tail(chars)) ELSE chars

(* The longest prefix of digits, and its value. *)
RECURSIVE DigitRun(_)
DigitRun(chars) ==
  IF chars # <<>> /\ IsDigit(Head(chars))
  THEN <<Head(chars)>> \o DigitRun(Tail(chars)) ELSE <<>>

RECURSIVE DigitsValue(_)
DigitsValue(ds) ==
  IF ds = <<>> THEN 0
  ELSE 10 * DigitsValue(SubSeq(ds, 1, Len(ds) - 1)) + DigitVal(ds[Len(ds)])

Drop(chars, n) == SubSeq(chars, n + 1, Len(chars))

RECURSIVE NatChars(_)
NatChars(n) ==
  IF n < 10 THEN <<Digits[n + 1]>>
  ELSE NatChars(n \div 10) \o <<Digits[(n % 10) + 1]>>

(* String(v) as parseInt and parseFloat apply it to a non-string argument. *)
ToStringChars(v) ==
  CASE v.t = "string" -> v.s
    [] v.t = "undefined" -> <<"u", "n", "d", "e", "f", "i", "n", "e", "d">>
    [] v.t = "null" -> <<"n", "u", "l", "l">>
    [] v.t = "boolean" ->
         IF v.b THEN <<"t", "r", "u", "e">> ELSE <<"f", "a", "l", "s", "e">>
    [] v.t = "number" ->
         IF v.nan THEN <<"N", "a", "N">>
         ELSE LET abs == IF v.n < 0 THEN -v.n ELSE v.n
                  whole == NatChars(abs \div Scale)
                  frac == abs % Scale
                  fchars == IF frac = 0 THEN <<>>
                            ELSE IF frac % 10 = 0
                            THEN <<".", Digits[(frac \div 10) + 1]>>
                            ELSE <<".", Digits[(frac \div 10) + 1],
                                   Digits[(frac % 10) + 1]>>
              IN (IF v.n < 0 THEN <<"-">> ELSE <<>>) \o whole \o fchars

(***************************************************************************)
(* parseInt(v): leading blanks, an optional sign, then decimal digits up   *)
(* to the first other character; NaN when there is no digit.  The value is *)
(* returned in hundredths.                                                 *)
(***************************************************************************)
parseInt(v) ==
  LET body == SkipSpaces(ToStringChars(v))
      neg == body # <<>> /\ Head(body) = "-"
      signed == body # <<>> /\ Head(body) \in {"-", "+"}
      rest == IF signed THEN Tail(body) ELSE body
      run == DigitRun(rest)
  IN IF run = <<>> THEN NaN
     ELSE JNum((IF neg THEN -1 ELSE 1) * DigitsValue(run) * Scale)

(***************************************************************************)
(* parseFloat(v): as parseInt, plus an optional '.' and fraction digits    *)
(* (the first two are kept: the value is in hundredths).                   *)
(***************************************************************************)
parseFloat(v) ==
  LET body == SkipSpaces(ToStringChars(v))
      neg == body # <<>> /\ Head(body) = "-"
      signed == body # <<>> /\ Head(body) \in {"-", "+"}
      rest == IF signed THEN Tail(body) ELSE body
      whole == DigitRun(rest)
      after == Drop(rest, Len(whole))
      frac == IF after # <<>> /\ Head(after) = "." THEN DigitRun(Tail(after))
              ELSE <<>>
      frac2 == SubSeq(frac \o <<"0", "0">>, 1, 2)
  IN IF whole = <<>> /\ frac = <<>> THEN NaN
     ELSE JNum((IF neg THEN -1 ELSE 1)
               * (DigitsValue(whole) * Scale + DigitsValue(frac2)))

(* Math.ceil(n / d) and Math.max on integers; d # 0. *)
CeilDiv(n, d) == IF d > 0 THEN -((-n) \div d) ELSE -(n \div (-d))
Max(a, b) == IF a >= b THEN a ELSE b

(* Arithmetic on hundredths: the literal k, a * b, Math.ceil(a),           *)
(* Math.abs(a), and Math.round(n / d) for d # 0.                           *)
Num(k) == k * Scale
Mul(a, b) == (a * b) \div Scale
Ceil(a) == CeilDiv(a, Scale) * Scale
Abs(a) == IF a < 0 THEN -a ELSE a
RoundDiv(n, d) ==
  IF d > 0 THEN (2 * n + d) \div (2 * d) ELSE (2 * (-n) - d) \div (2 * (-d))

(* parse(x) || k, as a number in hundredths *)
NumOr(v, k) == IF Truthy(v) THEN v.n ELSE Num(k)

(* A destructured field of a request body: undefined when absent. *)
Get(body, f) == IF f \in DOMAIN body THEN body[f] ELSE Undefined

(***************************************************************************)
(* JSON.stringify of a request body, as axios.post sends it: a field whose *)
(* value is undefined is dropped, NaN becomes null.                        *)
(***************************************************************************)
JsonBody(body) ==
  [f \in {g \in DOMAIN body : body[g].t # "undefined"} |->
     IF body[f].t = "number" /\ body[f].nan THEN JNull ELSE body[f]]

(* String.prototype.trim and toLowerCase (on the letters of the answers).  *)
RECURSIVE TrimEnd(_)
TrimEnd(chars) ==
  IF chars # <<>> /\ chars[Len(chars)] = " "
  THEN TrimEnd(SubSeq(chars, 1, Len(chars) - 1)) ELSE chars

Trim(chars) == TrimEnd(SkipSpaces(chars))

UpperLetters ==
  <<"A", "B", "C", "D", "E", "F", "G", "H", "I", "J", "K", "L", "M", "N", "O",
    "P", "Q", "R", "S", "T", "U", "V", "W", "X", "Y", "Z">>
LowerLetters ==
  <<"a", "b", "c", "d", "e", "f", "g", "h", "i", "j", "k", "l", "m", "n", "o",
    "p", "q", "r", "s", "t", "u", "v", "w", "x", "y", "z">>
ToLowerCase(chars) ==
  [i \in 1..Len(chars) |->
     IF \E j \in 1..Len(UpperLetters) : UpperLetters[j] = chars[i]
     THEN LowerLetters[CHOOSE j \in 1..Len(UpperLetters) :
                         UpperLetters[j] = chars[i]]
     ELSE chars[i]]

ToUpperCase(chars) ==
  [i \in 1..Len(chars) |->
     IF \E j \in 1..Len(LowerLetters) : LowerLetters[j] = chars[i]
     THEN UpperLetters[CHOOSE j \in 1..Len(LowerLetters) :
                         LowerLetters[j] = chars[i]]
     ELSE chars[i]]

(* str.replace(c, ''): the first occurrence of the character c removed. *)
RECURSIVE RemoveFirst(_, _)
RemoveFirst(chars, c) ==
  IF chars = <<>> THEN <<>>
  ELSE IF Head(chars) = c THEN Tail(chars)
  ELSE <<Head(chars)>> \o RemoveFirst(Tail(chars), c)

(* str.split(','): the pieces between commas, at least one. *)
RECURSIVE Split(_)
Split(chars) ==
  IF \A i \in 1..Len(chars) : chars[i] # ","
  THEN <<chars>>
  ELSE LET i == CHOOSE j \in 1..Len(chars) :
                  chars[j] = "," /\ \A h \in 1..(j - 1) : chars[h] # ","
       IN <<SubSeq(chars, 1, i - 1)>> \o Split(Drop(chars, i))

(* value?.toLowerCase(): undefined for null and undefined, a TypeError for *)
(* any other value that is not a string.                                   *)
LowerThrows(v) == v.t \notin {"undefined", "null", "string"}
LowerAsIs(v) == IF v.t = "string" THEN v ELSE Undefined
Lower(v) == IF v.t = "string" THEN JStr(ToLowerCase(v.s)) ELSE Undefined

(* The string literals the handlers compare their inputs with. *)
SKU_UNKNOWN == <<"S", "K", "U", "-", "U", "N", "K", "N", "O", "W", "N">>
StrTrue == <<"t", "r", "u", "e">>
StrYes == <<"y", "e", "s">>
StrY == <<"y">>
StrDelivered == <<"d", "e", "l", "i", "v", "e", "r", "e", "d">>
StrCorrect == <<"c", "o", "r", "r", "e", "c", "t">>
StrOverstocked ==
  <<"o", "v", "e", "r", "s", "t", "o", "c", "k", "e", "d">>

(***************************************************************************)
(* ESB1 POST /api/compute-replenishment: response.transformed (without     *)
(* calculatedAt, the timestamp).                                           *)
(***************************************************************************)
EsbComputeReplenishment(body) ==
  LET dailySales == NumOr(parseFloat(Get(body, "avgDailySales")), 10)
      leadTime == NumOr(parseInt(Get(body, "leadTimeDays")), 7)
      safetyDays == NumOr(parseInt(Get(body, "safetyStockDays")), 5)
      current == NumOr(parseInt(Get(body, "currentStock")), 0)
      reorderPoint == Mul(dailySales, leadTime + safetyDays)
      recommendedQty ==
        Max(0, Ceil(reorderPoint - current + Mul(dailySales, Num(14))))
  IN [productId |-> JOr(Get(body, "productId"), JStr(SKU_UNKNOWN)),
      reorderPoint |-> JNum(Ceil(reorderPoint)),
      recommendedQuantity |-> JNum(recommendedQty),
      calculationMethod |-> Lit("Safety Stock + Lead Time + 2-Week Buffer"),
      projectedDaysOfStock |->
        IF current > 0 THEN JNum(Num(CeilDiv(current, dailySales)))
        ELSE JNum(0),
      urgencyLevel |->
        IF current < reorderPoint THEN Lit("high")
        ELSE IF 2 * current < 3 * reorderPoint THEN Lit("medium")
        ELSE Lit("low"),
      esb |-> Lit("ESB1"),
      endpoint |-> Lit("compute-replenishment")]

(***************************************************************************)
(* ESB1 POST /api/analyze-replenishment: response.transformed (without     *)
(* analyzedAt).                                                            *)
(***************************************************************************)
EsbAnalyzeReplenishment(body) ==
  LET cost == NumOr(parseFloat(Get(body, "unitCost")), 10)
      qty == NumOr(parseInt(Get(body, "orderQuantity")), 100)
      totalCost == Mul(cost, qty)
      availableBudget == NumOr(parseFloat(Get(body, "budget")), 10000)
      withinBudget == totalCost <= availableBudget
  IN [totalOrderCost |-> JNum(totalCost),
      budgetRemaining |-> JNum(availableBudget - totalCost),
      withinBudget |-> JBool(withinBudget),
      financialScore |->
        IF withinBudget THEN Lit("FAVORABLE") ELSE Lit("UNFAVORABLE"),
      recommendation |->
        IF Truthy(Get(body, "approved")) THEN Lit("PROCEED_WITH_ORDER")
        ELSE Lit("ORDER_REJECTED"),
      esb |-> Lit("ESB1"),
      endpoint |-> Lit("analyze-replenishment")]

(***************************************************************************)
(* ESB2 POST /api/update-physical-prices: response.transformed (without    *)
(* updatedAt).  completionRate is the number before the '%' is appended.   *)
(***************************************************************************)
EsbUpdatePhysicalPrices(body) ==
  LET labels == NumOr(parseInt(Get(body, "labelsUpdated")), 0)
      stores == NumOr(parseInt(Get(body, "storeCount")), 10)
      allStoresCompleted == Get(body, "allStoresCompleted")
      completed == \/ allStoresCompleted = JBool(TRUE)
                   \/ allStoresCompleted = JStr(StrTrue)
      completionRate ==
        IF completed THEN 100
        ELSE LET rate == RoundDiv(2 * labels, stores)
             IN IF rate < 95 THEN rate ELSE 95
  IN [updateSummary |->
        [totalLabelsUpdated |-> JNum(labels),
         estimatedStores |-> JNum(stores),
         averageLabelsPerStore |->
           IF stores > 0 THEN JNum(Num(RoundDiv(labels, stores)))
           ELSE JNum(0)],
      completionRate |-> JNum(Num(completionRate)),
      completionStatus |->
        IF completionRate = 100 THEN Lit("COMPLETE")
        ELSE IF completionRate > 75 THEN Lit("NEARLY_COMPLETE")
        ELSE Lit("IN_PROGRESS"),
      esb |-> Lit("ESB2"),
      endpoint |-> Lit("update-physical-prices")]

(***************************************************************************)
(* ESB2 POST /api/verify-stock: response.transformed (without verifiedAt). *)
(***************************************************************************)
EsbVerifyStock(body) ==
  LET verified == Get(body, "verified")
      physical == NumOr(parseInt(Get(body, "physicalCount")), 0)
      system == NumOr(parseInt(Get(body, "currentStock")), 0)
  IN [stockVerified |->
        JBool(verified = JBool(TRUE) \/ verified = JStr(StrYes)),
      physicalStockCount |-> JNum(physical),
      systemStockCount |-> JNum(system),
      discrepancy |-> JNum(Abs(physical - system)),
      stockLocation |-> JOr(Get(body, "location"), Lit("Warehouse A")),
      esb |-> Lit("ESB2"),
      endpoint |-> Lit("verify-stock")]

(***************************************************************************)
(* ESB2 POST /api/check-delivery: response.transformed (without            *)
(* inspectedAt).                                                           *)
(***************************************************************************)
EsbCheckDelivery(body) ==
  LET conforming == Get(body, "conforming")
      received == NumOr(parseInt(Get(body, "receivedQty")), 0)
      damaged == NumOr(parseInt(Get(body, "damagedQty")), 0)
  IN [deliveryConforming |->
        JBool(conforming = JBool(TRUE) \/ conforming = JStr(StrYes)),
      quantityReceived |-> JNum(received),
      quantityAccepted |-> JNum(received - damaged),
      quantityDamaged |-> JNum(damaged),
      qualityScore |->
        JNum(NumOr(parseInt(Get(body, "qualityScore")), 8)),
      esb |-> Lit("ESB2"),
      endpoint |-> Lit("check-delivery")]

(***************************************************************************)
(* ESB1 POST /api/evaluate-profitability: response.transformed (without    *)
(* evaluatedAt).  marginImpact is the number before the '%' is appended.   *)
(***************************************************************************)
StrHigh == <<"h", "i", "g", "h">>
StrLow == <<"l", "o", "w">>
StrMedium == <<"m", "e", "d", "i", "u", "m">>

EsbEvaluateProfitabilityThrows(body) == LowerThrows(Get(body, "riskLevel"))

EsbEvaluateProfitability(body) ==
  LET marginValue == NumOr(parseFloat(Get(body, "margin")), 0)
      revenueValue ==
        NumOr(parseFloat(JStr(RemoveFirst(
                RemoveFirst(ToStringChars(Get(body, "revenueImpact")), "%"),
                "+"))), 0)
      risk == JOr(Lower(Get(body, "riskLevel")), JStr(StrMedium))
      riskCategory ==
        IF risk = JStr(StrHigh) \/ marginValue < Num(10) THEN "HIGH_RISK"
        ELSE IF risk = JStr(StrLow) /\ marginValue > Num(20) THEN "LOW_RISK"
        ELSE "MODERATE_RISK"
      approved == Get(body, "approved")
      recommendation ==
        IF Truthy(approved)
        THEN IF riskCategory = "LOW_RISK" THEN "PROCEED_IMMEDIATELY"
             ELSE IF riskCategory = "MODERATE_RISK"
             THEN "PROCEED_WITH_MONITORING"
             ELSE "PROCEED_WITH_CAUTION"
        ELSE "PROMOTION_REJECTED"
  IN [marginImpact |-> JNum(RoundDiv((marginValue - Num(35)) * 100, 35)),
      riskCategory |-> Lit(riskCategory),
      recommendation |-> Lit(recommendation),
      financialScore |->
        JNum(Num(RoundDiv(marginValue + revenueValue, 2 * Scale))),
      approvalStatus |->
        IF Truthy(approved) THEN Lit("APPROVED") ELSE Lit("REJECTED"),
      esb |-> Lit("ESB1"),
      endpoint |-> Lit("evaluate-profitability")]

(***************************************************************************)
(* ESB1 POST /api/identify-products: response.transformed (without         *)
(* enrichedAt).                                                            *)
(***************************************************************************)
(* productIds.split(',').map(p => p.trim()).filter(p => p), the array as   *)
(* it is, or [] for any other value.                                       *)
Products(productIds) ==
  IF productIds.t = "string"
  THEN LET pieces == Split(productIds.s)
           trimmed == [i \in 1..Len(pieces) |-> JStr(Trim(pieces[i]))]
       IN SelectSeq(trimmed, Truthy)
  ELSE IF productIds.t = "array" THEN productIds.a
  ELSE <<>>

(* urgencyScores / reasonScores: object literals read with a computed key; *)
(* a key that names a member of Object.prototype yields that member.       *)
ScoreOf(table, key) ==
  LET name == ToStringChars(key)
      own == {e \in table : e[1] = name}
      inherited == {n \in ObjectPrototype : ProtoChars(n) = name}
  IN IF own # {} THEN JNum(Num((CHOOSE e \in own : TRUE)[2]))
     ELSE IF inherited # {} THEN Inherited(CHOOSE n \in inherited : TRUE)
     ELSE Undefined

urgencyScores ==
  {<<StrHigh, 30>>, <<StrMedium, 20>>, <<StrLow, 10>>}

reasonScores ==
  {<<<<"e", "x", "p", "i", "r", "i", "n", "g">>, 40>>,
   <<<<"l", "o", "w", "_", "s", "a", "l", "e", "s">>, 30>>,
   <<<<"o", "v", "e", "r", "s", "t", "o", "c", "k">>, 25>>,
   <<<<"s", "e", "a", "s", "o", "n", "a", "l">>, 20>>}

EsbIdentifyProductsThrows(body) ==
  \/ LowerThrows(Get(body, "urgency"))
  \/ LowerThrows(Get(body, "reason"))
  \/ \E i \in 1..Len(Products(Get(body, "productIds"))) :
       Products(Get(body, "productIds"))[i].t # "string"

(* a + b: the sum of two numbers; with a function or object operand, the   *)
(* concatenation of the operands' strings, which is not numeric.           *)
Plus(a, b) ==
  IF a.t = "number" /\ b.t = "number" THEN JNum(a.n + b.n)
  ELSE Lit("function () { [native code] }...")

(* Number(v) for a number or a string that is not numeric *)
ToNumber(v) == IF v.t = "number" THEN v ELSE NaN

(* a > k, false when a is not a number *)
Greater(a, k) == ~ToNumber(a).nan /\ ToNumber(a).n > Num(k)

EsbIdentifyProducts(body) ==
  LET products == Products(Get(body, "productIds"))
      normalizedIds ==
        [i \in 1..Len(products) |-> JStr(ToUpperCase(products[i].s))]
      urgencyScore ==
        JOr(ScoreOf(urgencyScores, Lower(Get(body, "urgency"))), JNum(Num(15)))
      reasonScore ==
        JOr(ScoreOf(reasonScores, Lower(Get(body, "reason"))), JNum(Num(15)))
      analysisScore ==
        Plus(Plus(urgencyScore, reasonScore), JNum(Num(Len(products) * 2)))
      number == ToNumber(analysisScore)
  IN [normalizedIds |-> JArr(normalizedIds),
      analysisScore |->
        IF number.nan THEN NaN
        ELSE IF number.n < Num(100) THEN number ELSE JNum(Num(100)),
      productCount |-> JNum(Num(Len(normalizedIds))),
      priority |->
        IF Greater(analysisScore, 60) THEN Lit("high")
        ELSE IF Greater(analysisScore, 40) THEN Lit("medium")
        ELSE Lit("low"),
      esb |-> Lit("ESB1"),
      endpoint |-> Lit("identify-products")]

(***************************************************************************)
(* Data Analysis UI, POST /complete-stock-task: the body passed to callESB *)
(* and the result passed to job.complete (without analysisTimestamp).      *)
(***************************************************************************)
UiStockEsbBody(in) ==
  [productId |-> in.productId, productName |-> in.productName,
   currentStock |-> in.currentStock, avgDailySales |-> in.avgDailySales,
   leadTimeDays |-> in.leadTimeDays, safetyStockDays |-> in.safetyStockDays]

(* The same handler with the two-week buffer forgotten. *)
UiStockResultNoBuffer(in, transformed) ==
  LET dailySales == NumOr(parseFloat(in.avgDailySales), 10)
      leadTime == NumOr(parseInt(in.leadTimeDays), 7)
      safetyDays == NumOr(parseInt(in.safetyStockDays), 5)
      current == NumOr(parseInt(in.currentStock), 0)
      reorderPoint == Mul(dailySales, leadTime + safetyDays)
      recommendedQty == Max(0, Ceil(reorderPoint - current))
  IN [productId |-> JOr(in.productId, JStr(SKU_UNKNOWN)),
      productName |-> JOr(in.productName, Lit("Unknown Product")),
      currentStock |-> JNum(current),
      averageDailySales |-> JNum(dailySales),
      leadTimeDays |-> JNum(leadTime),
      safetyStockDays |-> JNum(safetyDays),
      reorderPoint |-> JNum(Ceil(reorderPoint)),
      recommendedQuantity |-> JNum(recommendedQty),
      calculationMethod |-> Lit("Safety Stock + Lead Time + 2-Week Buffer"),
      department |-> Lit("Data & Analytics"),
      esbData |-> transformed]

UiStockResult(in, transformed) ==
  LET dailySales == NumOr(parseFloat(in.avgDailySales), 10)
      leadTime == NumOr(parseInt(in.leadTimeDays), 7)
      safetyDays == NumOr(parseInt(in.safetyStockDays), 5)
      current == NumOr(parseInt(in.currentStock), 0)
      reorderPoint == Mul(dailySales, leadTime + safetyDays)
      recommendedQty ==
        Max(0, Ceil(reorderPoint - current + Mul(dailySales, Num(14))))
  IN [productId |-> JOr(in.productId, JStr(SKU_UNKNOWN)),
      productName |-> JOr(in.productName, Lit("Unknown Product")),
      currentStock |-> JNum(current),
      averageDailySales |-> JNum(dailySales),
      leadTimeDays |-> JNum(leadTime),
      safetyStockDays |-> JNum(safetyDays),
      reorderPoint |-> JNum(Ceil(reorderPoint)),
      recommendedQuantity |-> JNum(recommendedQty),
      calculationMethod |-> Lit("Safety Stock + Lead Time + 2-Week Buffer"),
      department |-> Lit("Data & Analytics"),
      esbData |-> transformed]

(***************************************************************************)
(* Terminal worker compute-replenishment-quantity: the result it passes to *)
(* job.complete from the six prompt answers.                               *)
(***************************************************************************)
TermStockResult(in) ==
  LET dailySales == NumOr(parseFloat(in.avgDailySales), 10)
      leadTime == NumOr(parseInt(in.leadTimeDays), 7)
      safetyDays == NumOr(parseInt(in.safetyStockDays), 5)
      current == NumOr(parseInt(in.currentStock), 0)
      reorderPoint == Mul(dailySales, leadTime + safetyDays)
      recommendedQty ==
        Max(0, Ceil(reorderPoint - current + Mul(dailySales, Num(14))))
  IN [productId |-> JOr(in.productId, JStr(SKU_UNKNOWN)),
      productName |-> JOr(in.productName, Lit("Unknown Product")),
      currentStock |-> JNum(current),
      averageDailySales |-> JNum(dailySales),
      leadTimeDays |-> JNum(leadTime),
      safetyStockDays |-> JNum(safetyDays),
      reorderPoint |-> JNum(Ceil(reorderPoint)),
      recommendedQuantity |-> JNum(recommendedQty),
      calculationMethod |-> Lit("Safety Stock + Lead Time + 2-Week Buffer"),
      department |-> Lit("Data & Analytics")]

(***************************************************************************)
(* Finance UI, POST /complete-stock-task (analyze-replenishment jobs).     *)
(* jobVars is task.job.variables.                                          *)
(***************************************************************************)
UiFinanceEsbBody(in, jobVars) ==
  [reorderQuantity |-> JOr(jobVars.recommendedQuantity, JNum(Num(100))),
   unitCost |-> JOr(jobVars.unitCost, JNum(Num(25))),
   budgetApproved |-> JOr(StrictEq(in.budgetApproved, JStr(StrTrue)),
                          StrictEq(in.budgetApproved, JBool(TRUE))),
   budgetAmount |-> JOr(parseFloat(in.budgetAmount), JNum(0)),
   priorityLevel |-> in.priorityLevel]

UiFinanceResult(in, jobVars, transformed) ==
  LET isApproved == JOr(StrictEq(in.budgetApproved, JStr(StrTrue)),
                        StrictEq(in.budgetApproved, JBool(TRUE)))
  IN [financeApproved |-> isApproved,
      budgetApproved |-> isApproved,
      budgetAllocated |->
        JOr(JOr(parseFloat(in.budgetAmount), Get(transformed, "estimatedCost")),
            JNum(Num(2500))),
      financialScore |->
        JOr(Get(transformed, "financialScore"), JNum(Num(85))),
      priorityLevel |-> JOr(in.priorityLevel, Lit("medium")),
      financeNotes |->
        JOr(in.notes,
            IF Truthy(isApproved)
            THEN Lit("Budget approved for stock replenishment order.")
            ELSE Lit("Budget request denied. Insufficient funds or low priority.")),
      department |-> Lit("Finance & Accounting"),
      approvedBy |-> Lit("Web UI User"),
      esbData |-> transformed]

(***************************************************************************)
(* Logistics UI, POST /complete-delivery (check-delivery jobs).            *)
(* damageReport.trim() throws a TypeError when damageReport is truthy and  *)
(* not a string; that happens before callESB.                              *)
(***************************************************************************)
UiDeliveryThrows(in) ==
  Truthy(in.damageReport) /\ in.damageReport.t # "string"

UiDeliveryHasDamage(in) ==
  JAnd(in.damageReport, JBool(Trim(in.damageReport.s) # <<>>))

UiDeliveryEsbBody(in, jobVars) ==
  [orderId |-> jobVars.orderId,
   deliveryStatus |-> in.deliveryStatus,
   quantityReceived |-> parseInt(in.quantityReceived),
   hasDamage |-> UiDeliveryHasDamage(in)]

(* The same handler with the gateway variable taken from hasDamage as is. *)
UiDeliveryResultUnnegated(in, jobVars, transformed) ==
  LET isDelivered == StrictEq(in.deliveryStatus, JStr(StrDelivered))
      hasDamage == UiDeliveryHasDamage(in)
      isConforming == JAnd(isDelivered, hasDamage)
  IN [deliveryConforming |-> isConforming,
      deliveryStatus |-> in.deliveryStatus,
      deliveryComplete |-> isDelivered,
      quantityReceived |->
        JOr(JOr(parseInt(in.quantityReceived), jobVars.orderQuantity),
            JNum(Num(100))),
      quantityExpected |-> JOr(jobVars.orderQuantity, JNum(Num(100))),
      hasDamage |-> hasDamage,
      damageReport |-> JOr(in.damageReport, JNull),
      requiresReturn |-> hasDamage,
      checkedBy |-> Lit("Web UI User"),
      deliveryNotes |->
        JOr(in.notes,
            IF Truthy(isDelivered) THEN Lit("Delivery received and verified")
            ELSE Lit("Delivery pending")),
      department |-> Lit("Logistics"),
      esbData |-> transformed]

UiDeliveryResult(in, jobVars, transformed) ==
  LET isDelivered == StrictEq(in.deliveryStatus, JStr(StrDelivered))
      hasDamage == UiDeliveryHasDamage(in)
      isConforming == JAnd(isDelivered, JNot(hasDamage))
  IN [deliveryConforming |-> isConforming,
      deliveryStatus |-> in.deliveryStatus,
      deliveryComplete |-> isDelivered,
      quantityReceived |->
        JOr(JOr(parseInt(in.quantityReceived), jobVars.orderQuantity),
            JNum(Num(100))),
      quantityExpected |-> JOr(jobVars.orderQuantity, JNum(Num(100))),
      hasDamage |-> hasDamage,
      damageReport |-> JOr(in.damageReport, JNull),
      requiresReturn |-> hasDamage,
      checkedBy |-> Lit("Web UI User"),
      deliveryNotes |->
        JOr(in.notes,
            IF Truthy(isDelivered) THEN Lit("Delivery received and verified")
            ELSE Lit("Delivery pending")),
      department |-> Lit("Logistics"),
      esbData |-> transformed]

(***************************************************************************)
(* Merchandising UI, POST /complete-verify (verify-stock jobs).  The job   *)
(* variables drawn below are numbers or absent, so + is addition.          *)
(***************************************************************************)
UiVerifyEsbBody(in, jobVars) ==
  [productId |-> jobVars.productId,
   verifiedStock |-> parseInt(in.verifiedStock),
   expectedStock |->
     JOr(jobVars.expectedStock,
         JNum(JOr(jobVars.currentStock, JNum(0)).n
              + JOr(jobVars.quantityReceived, JNum(0)).n)),
   stockStatus |-> in.stockStatus]

UiVerifyResult(in, jobVars, transformed) ==
  LET isVerified == JOr(StrictEq(in.stockStatus, JStr(StrCorrect)),
                        StrictEq(in.stockStatus, JStr(StrOverstocked)))
  IN [stockVerified |-> isVerified,
      verifiedStock |-> JOr(parseInt(in.verifiedStock), JNum(0)),
      expectedStock |-> JOr(jobVars.expectedStock, JNum(Num(100))),
      stockStatus |-> JOr(in.stockStatus, Lit("correct")),
      discrepancy |->
        JNum(JOr(parseInt(in.verifiedStock), JNum(0)).n
             - JOr(jobVars.expectedStock, JNum(Num(100))).n),
      shelfLocation |-> JOr(in.shelfLocation, Lit("A1-01")),
      verificationNotes |->
        JOr(in.notes,
            IF Truthy(isVerified) THEN Lit("Stock levels verified and correct")
            ELSE Lit("Discrepancy found - investigation required")),
      verifiedBy |-> Lit("Web UI User"),
      department |-> Lit("Merchandising"),
      workflowComplete |-> JBool(TRUE),
      esbData |-> transformed]

(***************************************************************************)
(* Terminal worker analyze-replenishment: the result it passes to          *)
(* job.complete from its prompt answers (strings) and job.variables.       *)
(***************************************************************************)
TermFinanceResult(in, jobVars) ==
  LET cost == NumOr(parseFloat(in.unitCost), 10)
      qty == JOr(jobVars.orderQuantity, JNum(Num(100))).n
      totalCost == Mul(cost, qty)
      availableBudget == NumOr(parseFloat(in.budget), 10000)
      withinBudget == totalCost <= availableBudget
      financeApproved ==
        JOr(StrictEq(JStr(ToLowerCase(in.approvalInput.s)), JStr(StrYes)),
            StrictEq(JStr(ToLowerCase(in.approvalInput.s)), JStr(StrY)))
  IN [financeApproved |-> financeApproved,
      unitCost |-> JNum(cost),
      totalOrderCost |-> JNum(totalCost),
      availableBudget |-> JNum(availableBudget),
      withinBudget |-> JBool(withinBudget),
      minimumOrderQuantity |-> JOr(parseInt(in.moq), JNum(Num(1))),
      paymentTerms |-> JOr(in.paymentTerms, Lit("Net 30")),
      financialAnalysis |->
        [costPerUnit |-> JNum(cost), quantity |-> JNum(qty),
         subtotal |-> JNum(totalCost),
         budgetRemaining |-> JNum(availableBudget - totalCost)],
      approvalNotes |->
        IF Truthy(financeApproved)
        THEN Lit("Replenishment approved. Budget allocated and PO authorized.")
        ELSE Lit("Replenishment rejected. Budget constraints or financial concerns."),
      approvedBy |->
        IF Truthy(financeApproved) THEN Lit("Finance Department") ELSE JNull,
      department |-> Lit("Finance & Accounting")]

(***************************************************************************)
(* Terminal worker verify-stock.                                           *)
(***************************************************************************)
TermVerifyResult(in, jobVars) ==
  LET stockVerified ==
        JOr(StrictEq(JStr(ToLowerCase(in.verifiedInput.s)), JStr(StrYes)),
            StrictEq(JStr(ToLowerCase(in.verifiedInput.s)), JStr(StrY)))
      physical == JOr(parseInt(in.physicalCount), JNum(0)).n
  IN [stockVerified |-> stockVerified,
      physicalStockCount |-> JNum(physical),
      stockLocation |-> JOr(in.location, Lit("Warehouse A")),
      verifiedBy |-> Lit("Merchandising Team"),
      discrepancy |->
        JNum(Abs(physical - JOr(jobVars.currentStock, JNum(0)).n)),
      verificationNotes |->
        IF Truthy(stockVerified)
        THEN Lit("Stock verified below threshold. Replenishment approved to proceed.")
        ELSE Lit("Stock level adequate or discrepancy found. Replenishment not needed."),
      department |-> Lit("Merchandising")]

(***************************************************************************)
(* Terminal worker check-delivery.                                         *)
(***************************************************************************)
TermDeliveryResult(in) ==
  LET deliveryConforming ==
        JOr(StrictEq(JStr(ToLowerCase(in.conformingInput.s)), JStr(StrYes)),
            StrictEq(JStr(ToLowerCase(in.conformingInput.s)), JStr(StrY)))
      received == NumOr(parseInt(in.receivedQty), 0)
      damaged == NumOr(parseInt(in.damagedQty), 0)
  IN [deliveryConforming |-> deliveryConforming,
      quantityReceived |-> JNum(received),
      quantityAccepted |-> JNum(received - damaged),
      quantityDamaged |-> JNum(damaged),
      qualityScore |-> JNum(NumOr(parseInt(in.qualityScore), 8)),
      inspectedBy |-> Lit("Logistics Team"),
      deliveryNotes |->
        IF Truthy(deliveryConforming)
        THEN Lit("Delivery accepted. Quality standards met.")
        ELSE Lit("Delivery rejected. Quality issues or quantity discrepancy."),
      department |-> Lit("Logistics & Procurement")]


VARIABLES
  server,        \* which department UI this process is
  jobType,       \* orchestrator: task type of each job key
  jobState,      \* orchestrator: "created" or "completed"
  inFlight,      \* activated jobs on their way to the worker's taskHandler
  delivered,     \* how often each job has been handed to the taskHandler
  pendingTasks,  \* the in-memory Map: job key -> task entry (or NoTask)
  req,           \* the HTTP completion requests and their handler position
  emitted,       \* io.emit counts per key: 'new-task' and 'task-completed'
  forwards,      \* job.forward() returns per key
  writes,        \* pendingTasks.set calls per key
  lookups,       \* successful pendingTasks.get of a completion handler, per key
  shutdown,      \* the SIGINT handler: its position and what it has closed
  call,          \* one call of callESB: its position, its posts, its outcome
  client,        \* one browser: its socket, its task list, events on the way
  flow,          \* one form or prompt session: which handler it goes to
  input,         \* its raw inputs: the form fields / answers and job.variables
  fstep,         \* how far that handler is
  esbBody,       \* the JSON body its callESB posted
  esbResponse,   \* the ESB's response body
  result,        \* the variables it passed to job.complete
  clock,         \* ESB servers: the wall clock (Date.now())
  served         \* ESB servers: the requests answered so far, with responses

uiVars ==
  <<server, jobType, jobState, inFlight, delivered, pendingTasks, req,
    emitted, forwards, writes, lookups, shutdown, call, client>>
formVars == <<flow, input, fstep, esbBody, esbResponse, result>>
esbVars == <<clock, served>>
vars == <<uiVars, formVars, esbVars>>

Nothing == [none |-> TRUE]

(* No form session is followed / no ESB request is followed. *)
FormsIdle ==
  /\ flow = "none"
  /\ input = Nothing
  /\ fstep = "idle"
  /\ esbBody = Nothing
  /\ esbResponse = Nothing
  /\ result = Nothing

EsbIdle ==
  /\ clock = 0
  /\ served = <<>>

(* The process runs; no SIGINT yet. *)
Running ==
  [pc |-> 0, closed |-> {}, clientClosed |-> FALSE, openAtClientClose |-> {},
   httpClosed |-> FALSE, exited |-> FALSE]

(* callESB has not been called. *)
NoCall ==
  [pc |-> "idle", endpoint |-> "none", data |-> Nothing, posts |-> <<>>,
   settled |-> Nothing, returned |-> Nothing, thrown |-> Nothing]

(* No browser has connected: no socket, an empty task list. *)
NoClient == [connected |-> FALSE, view |-> {}, queue |-> <<>>]

BroadcastNothing(event) == client

(* io.emit(...): the event goes to every connected socket, in order. *)
Broadcast(event) ==
  IF client.connected THEN [client EXCEPT !.queue = Append(@, event)]
  ELSE client

NoTask == [taskType |-> "none", delivery |-> 0]
NoRoute == Route("none", "none", "none", "never")
IdleReq ==
  [pc |-> "idle", route |-> NoRoute, key |-> 0, bad |-> FALSE, retry |-> FALSE,
   task |-> NoTask, status |-> 0, error |-> "none", esbCalled |-> FALSE,
   esbReplied |-> FALSE, completeCalled |-> FALSE, completeOk |-> FALSE]

Init ==
  /\ server \in Servers
  /\ jobType = [k \in Keys |-> JobTypeOf(server, k)]
  /\ jobState = [k \in Keys |-> "created"]
  /\ inFlight = [k \in Keys |-> 0]
  /\ delivered = [k \in Keys |-> 0]
  /\ pendingTasks = [k \in Keys |-> NoTask]
  /\ req = [r \in Reqs |-> IdleReq]
  /\ emitted = [k \in Keys |-> [newTask |-> 0, taskCompleted |-> 0]]
  /\ forwards = [k \in Keys |-> 0]
  /\ writes = [k \in Keys |-> 0]
  /\ lookups = [k \in Keys |-> 0]
  /\ shutdown = Running
  /\ call = NoCall
  /\ client = NoClient
  /\ FormsIdle
  /\ EsbIdle

(***************************************************************************)
(* The orchestrator.  A job handed to a worker stays activated until its   *)
(* timeout; job.forward() tells the client library only that the handler   *)
(* will not complete it, so after the timeout the same job (same key) is   *)
(* activated again.  ActivateJob is the first activation or a timeout      *)
(* followed by a new activation.  A completed job is never activated.      *)
(***************************************************************************)
ActivateJob(k) ==
  /\ UNCHANGED <<formVars, esbVars, shutdown, call, client>>
  /\ jobState[k] # "completed"
  /\ delivered[k] + inFlight[k] < MaxDeliveries
  /\ inFlight' = [inFlight EXCEPT ![k] = @ + 1]
  /\ UNCHANGED <<server, jobType, jobState, delivered, pendingTasks, req,
                 emitted, forwards, writes, lookups>>

(***************************************************************************)
(* taskHandler of a web-UI Zeebe worker: pendingTasks.set(job.key, ...),   *)
(* io.emit('new-task', ...), return job.forward().                         *)
(***************************************************************************)
(* A handler written like the terminal workers: it completes the job. *)
TaskHandlerCompletes(k) ==
  /\ UNCHANGED <<formVars, esbVars, shutdown, call, client>>
  /\ inFlight[k] > 0
  /\ inFlight' = [inFlight EXCEPT ![k] = @ - 1]
  /\ delivered' = [delivered EXCEPT ![k] = @ + 1]
  /\ jobState' = [jobState EXCEPT ![k] = "completed"]
  /\ UNCHANGED <<server, jobType, pendingTasks, req, emitted, forwards,
                 writes, lookups>>

StoreTask(k) ==
  [pendingTasks EXCEPT
     ![k] = [taskType |-> jobType[k], delivery |-> delivered[k] + 1]]

taskHandler(k) ==
  /\ UNCHANGED <<formVars, esbVars, shutdown, call>>
  /\ inFlight[k] > 0
  /\ inFlight' = [inFlight EXCEPT ![k] = @ - 1]
  /\ delivered' = [delivered EXCEPT ![k] = @ + 1]
  /\ pendingTasks' = StoreTask(k)
  /\ writes' = [writes EXCEPT ![k] = @ + 1]
  /\ emitted' = [emitted EXCEPT ![k].newTask = @ + 1]
  /\ forwards' = [forwards EXCEPT ![k] = @ + 1]
  /\ client' = Broadcast([type |-> "new-task", jobKey |-> k, tasks |-> {}])
  /\ UNCHANGED <<server, jobType, jobState, req, lookups>>

(***************************************************************************)
(* callESB: the routing-table lookup.  An endpoint that is no key of the   *)
(* table throws before any HTTP request is made.                           *)
(***************************************************************************)
(* endpointMapping[endpoint]: the table's value for one of its keys, an   *)
(* inherited member for a name of Object.prototype, else undefined.       *)
BaseUrl(endpoint) ==
  IF endpoint \in DOMAIN endpointMapping THEN Lit(endpointMapping[endpoint])
  ELSE IF endpoint \in ObjectPrototype THEN Inherited(endpoint)
  ELSE Undefined

(* if (!baseUrl) throw new Error(`Unknown ESB endpoint: ...`) *)
KnownEndpoint(endpoint) == Truthy(BaseUrl(endpoint))

(* axios.post(url, data, {timeout: 10000}) *)
PostTimeout == 10000

(* The ESB answers a POST with 2xx only on a route it registered. *)
Served(endpoint) == endpoint \in PostRoutes(BaseUrl(endpoint).lit)

(***************************************************************************)
(* A completion handler, app.post('/complete-...'), up to its first await: *)
(* pendingTasks.get(jobKey); 404 when absent; otherwise callESB(...).      *)
(* A throw is caught by the handler's catch: res.status(500).              *)
(***************************************************************************)
FailSwallowed(rq, msg) ==
  [rq EXCEPT !.pc = "done", !.status = 200, !.error = "none"]

Fail(rq, msg) == [rq EXCEPT !.pc = "done", !.status = 500, !.error = msg]

(* History: an earlier request for this key found the task and ended 500. *)
FailedBefore(k) ==
  \E q \in Reqs : /\ req[q].key = k /\ req[q].status = 500
                   /\ req[q].task # NoTask

NotFoundProceeds(rq) == [rq EXCEPT !.pc = "awaitESB", !.esbCalled = TRUE]

(* if (!task) return res.status(404).json({ error: 'Task not found' }) *)
NotFound(rq) ==
  [rq EXCEPT !.pc = "done", !.status = 404, !.error = "Task not found"]

Submit(r, rt, k, bad) ==
  /\ UNCHANGED <<formVars, esbVars, shutdown, call, client>>
  /\ req[r].pc = "idle"
  /\ \A q \in Reqs : q < r => req[q].pc # "idle"
  /\ LET rq == [req[r] EXCEPT !.route = rt, !.key = k, !.bad = bad,
                              !.task = pendingTasks[k],
                              !.retry = FailedBefore(k)]
     IN IF pendingTasks[k] = NoTask
        THEN /\ req' = [req EXCEPT ![r] = NotFound(rq)]
             /\ UNCHANGED lookups
        ELSE /\ lookups' = [lookups EXCEPT ![k] = @ + 1]
             /\ req' = [req EXCEPT ![r] =
                  IF rt.throws = "pre" /\ bad
                  THEN Fail(rq, "TypeError")
                  ELSE IF ~KnownEndpoint(rt.endpoint)
                  THEN Fail(rq, "Unknown ESB endpoint")
                  ELSE [rq EXCEPT !.pc = "awaitESB", !.esbCalled = TRUE]]
  /\ UNCHANGED <<server, jobType, jobState, inFlight, delivered, pendingTasks,
                 emitted, forwards, writes>>

(***************************************************************************)
(* The ESB's answer resumes the handler after `await callESB(...)`: on an  *)
(* HTTP error callESB rethrows (500); otherwise the handler builds the     *)
(* result and calls task.job.complete(result), its second await.           *)
(***************************************************************************)
EsbReply(r, ok) ==
  /\ UNCHANGED <<formVars, esbVars, shutdown, call, client>>
  /\ req[r].pc = "awaitESB"
  /\ ok => Served(req[r].route.endpoint)
  /\ req' = [req EXCEPT ![r] =
       IF ~ok THEN Fail(@, "ESB request failed")
       ELSE IF @.route.throws = "post" /\ @.bad
       THEN Fail([@ EXCEPT !.esbReplied = TRUE], "TypeError")
       ELSE [@ EXCEPT !.pc = "awaitComplete", !.esbReplied = TRUE,
                      !.completeCalled = TRUE]]
  /\ UNCHANGED <<server, jobType, jobState, inFlight, delivered, pendingTasks,
                 emitted, forwards, writes, lookups>>

(***************************************************************************)
(* The orchestrator handles the CompleteJob command: it succeeds at most   *)
(* once per job, and may fail for any job (gateway unreachable).           *)
(***************************************************************************)
OrchComplete(r, ok) ==
  /\ UNCHANGED <<formVars, esbVars, shutdown, call, client>>
  /\ req[r].pc = "awaitComplete"
  /\ ok => jobState[req[r].key] # "completed"
  /\ jobState' = IF ok THEN [jobState EXCEPT ![req[r].key] = "completed"]
                 ELSE jobState
  /\ req' = [req EXCEPT ![r] = [@ EXCEPT !.pc = "settled", !.completeOk = ok]]
  /\ UNCHANGED <<server, jobType, inFlight, delivered, pendingTasks, emitted,
                 forwards, writes, lookups>>

(***************************************************************************)
(* The handler after `await task.job.complete(result)`:                    *)
(* pendingTasks.delete(jobKey); io.emit('task-completed'); res.json(...)   *)
(* or, when the promise rejected, the catch: res.status(500).              *)
(***************************************************************************)
DeleteNothing(k) == pendingTasks

DeleteTask(k) == [pendingTasks EXCEPT ![k] = NoTask]

EmitNothing(k) == emitted

EmitCompleted(k) == [emitted EXCEPT ![k].taskCompleted = @ + 1]

(* A handler that does not await job.complete's outcome. *)
CompleteReplyUnawaited(r) ==
  /\ UNCHANGED <<formVars, esbVars, shutdown, call>>
  /\ req[r].pc = "settled"
  /\ pendingTasks' = DeleteTask(req[r].key)
  /\ emitted' = EmitCompleted(req[r].key)
  /\ client' = Broadcast([type |-> "task-completed", jobKey |-> req[r].key,
                          tasks |-> {}])
  /\ req' = [req EXCEPT ![r] = [@ EXCEPT !.pc = "done", !.status = 200]]
  /\ UNCHANGED <<server, jobType, jobState, inFlight, delivered, forwards,
                 writes, lookups>>

CompleteReply(r) ==
  /\ UNCHANGED <<formVars, esbVars, shutdown, call>>
  /\ req[r].pc = "settled"
  /\ IF req[r].completeOk
     THEN /\ pendingTasks' = DeleteTask(req[r].key)
          /\ emitted' = EmitCompleted(req[r].key)
          /\ client' = Broadcast([type |-> "task-completed",
                                  jobKey |-> req[r].key, tasks |-> {}])
          /\ req' = [req EXCEPT ![r] = [@ EXCEPT !.pc = "done", !.status = 200]]
     ELSE /\ req' = [req EXCEPT ![r] = Fail(@, "job.complete failed")]
          /\ UNCHANGED <<pendingTasks, emitted, client>>
  /\ UNCHANGED <<server, jobType, jobState, inFlight, delivered, forwards,
                 writes, lookups>>

(* Array.from(pendingTasks.values()): what GET /api/tasks answers and     *)
(* what 'initial-tasks' carries to a connecting client.                    *)
ApiTasks ==
  {[jobKey |-> k, taskType |-> pendingTasks[k].taskType] :
     k \in {j \in Keys : pendingTasks[j] # NoTask}}

Next ==
  \/ \E k \in Keys : ActivateJob(k)
  \/ \E k \in Keys : taskHandler(k)
  \/ \E r \in Reqs, k \in Keys, bad \in BOOLEAN :
       \E rt \in CompletionRoutes(server) :
         /\ bad => rt.throws # "never"
         /\ Submit(r, rt, k, bad)
  \/ \E r \in Reqs, ok \in BOOLEAN : EsbReply(r, ok)
  \/ \E r \in Reqs, ok \in BOOLEAN : OrchComplete(r, ok)
  \/ \E r \in Reqs : CompleteReply(r)

Spec == Init /\ [][Next]_vars

(***************************************************************************)
(* The HTTP side of an ESB server: express routes a request to the handler *)
(* registered for its method and path and answers 404 when there is none.  *)
(* A handler reads the request body and the clock; three of them also draw *)
(* a random suffix for an identifier.                                      *)
(***************************************************************************)
Modelled ==
  {"/api/compute-replenishment", "/api/analyze-replenishment",
   "/api/update-physical-prices", "/api/verify-stock", "/api/check-delivery",
   "/api/identify-products", "/api/evaluate-profitability"}

EsbName(baseUrl) == IF baseUrl = ESB1_URL THEN "ESB1" ELSE "ESB2"

(* A handler that stamps the number of requests served into its answer. *)
EsbTransformedCounting(endpoint, body) ==
  [esb |-> Lit(EsbName(endpointMapping[endpoint])), endpoint |-> Lit(endpoint),
   sequence |-> JNum(Num(Len(served)))]

(* response.transformed of the handler of a registered POST route, without *)
(* its time- and random-derived fields.  For the routes outside Modelled   *)
(* only the two constant fields are kept.                                  *)
EsbTransformed(endpoint, body) ==
  CASE endpoint = "/api/compute-replenishment" -> EsbComputeReplenishment(body)
    [] endpoint = "/api/analyze-replenishment" -> EsbAnalyzeReplenishment(body)
    [] endpoint = "/api/update-physical-prices" -> EsbUpdatePhysicalPrices(body)
    [] endpoint = "/api/verify-stock" -> EsbVerifyStock(body)
    [] endpoint = "/api/check-delivery" -> EsbCheckDelivery(body)
    [] endpoint = "/api/identify-products" -> EsbIdentifyProducts(body)
    [] endpoint = "/api/evaluate-profitability" ->
         EsbEvaluateProfitability(body)
    [] OTHER ->
         [esb |-> Lit(EsbName(endpointMapping[endpoint])),
          endpoint |-> Lit(endpoint)]

(* response.original: the destructured fields echoed back (for           *)
(* identify-products without productIds, which echoes the parsed list).    *)
OriginalFields(endpoint) ==
  CASE endpoint = "/api/compute-replenishment" ->
         {"productId", "productName", "currentStock", "avgDailySales",
          "leadTimeDays", "safetyStockDays"}
    [] endpoint = "/api/analyze-replenishment" ->
         {"unitCost", "budget", "moq", "orderQuantity", "paymentTerms",
          "approved"}
    [] endpoint = "/api/update-physical-prices" ->
         {"labelsUpdated", "allStoresCompleted", "storeCount"}
    [] endpoint = "/api/evaluate-profitability" ->
         {"margin", "revenueImpact", "riskLevel", "approved"}
    [] endpoint = "/api/identify-products" -> {"reason", "urgency"}
    [] OTHER -> {}

EsbOriginal(endpoint, body) ==
  [f \in OriginalFields(endpoint) \cap DOMAIN body |-> body[f]]

(* The routes whose handler calls Math.random(). *)
RandomRoutes ==
  {"/api/propose-promotion", "/api/prepare-materials", "/api/update-prices",
   "/api/process-replenishment"}

(* A handler that throws: Express answers 500. *)
EsbThrows(endpoint, body) ==
  \/ endpoint = "/api/identify-products" /\ EsbIdentifyProductsThrows(body)
  \/ endpoint = "/api/evaluate-profitability"
       /\ EsbEvaluateProfitabilityThrows(body)

EsbRespond(baseUrl, method, path, body, now, rnd) ==
  IF method = "GET" /\ path = "/health"
  THEN [status |-> 200,
        body |-> [status |-> Lit("healthy"), esb |-> Lit(EsbName(baseUrl)),
                  port |-> baseUrl]]
  ELSE IF method = "POST" /\ path \in PostRoutes(baseUrl)
                          /\ EsbThrows(path, body)
  THEN [status |-> 500, body |-> Nothing]
  ELSE IF method = "POST" /\ path \in PostRoutes(baseUrl)
  THEN [status |-> 200,
        body |-> [success |-> JBool(TRUE),
                  original |-> EsbOriginal(path, body),
                  transformed |-> EsbTransformed(path, body),
                  timestamp |-> now,
                  random |-> rnd]]
  ELSE [status |-> 404, body |-> Nothing]

(***************************************************************************)
(* One form or prompt session through one handler.  flow names the handler *)
(* and input holds what the user typed and the job's variables.            *)
(***************************************************************************)
UiFlows == {"ui-stock", "ui-finance", "ui-delivery", "ui-verify"}
TermFlows == {"term-stock", "term-finance", "term-verify", "term-delivery"}
Flows == UiFlows \cup TermFlows

FlowEndpoint(f) ==
  CASE f = "ui-stock" -> "/api/compute-replenishment"
    [] f = "ui-finance" -> "/api/analyze-replenishment"
    [] f = "ui-delivery" -> "/api/check-delivery"
    [] f = "ui-verify" -> "/api/verify-stock"

(* What a browser form can post: a field may be missing, a string, or      *)
(* another JSON value.  A prompt answer is always a string.                *)
Empty == JStr(<<>>)
Yeses ==
  {JStr(<<"y", "e", "s">>), JStr(<<"y">>), JStr(<<"Y", "E", "S">>),
   JStr(<<"Y">>), JStr(<<"Y", "e", "s">>), JStr(<<"n", "o">>), Empty,
   JStr(<<"y", "e", "s", " ">>)}

StockLevels ==
  {Undefined, Empty, JStr(<<"0">>), JStr(<<"4", "0">>), JStr(<<"5", "0", "0">>),
   JStr(<<"1", "2", "x">>), JNum(Num(40))}
DailySales ==
  {Undefined, JStr(<<"0">>), JStr(<<"2", ".", "5">>), JStr(<<"-", "3">>),
   JStr(<<"a", "b", "c">>), JStr(<<".", "2", "5">>), JNum(Num(2) + 50)}
LeadTimes ==
  {Undefined, JStr(<<"3">>), JStr(<<"-", "2", "0">>), JStr(<<"7", ".", "9">>)}
SafetyDays == {Undefined, JStr(<<"0">>), JStr(<<"2">>)}
ProductIds == {Undefined, JStr(<<"S", "1">>)}

(* The answer typed for a field that a form may leave out. *)
Typed(v) == IF v.t = "undefined" THEN Empty ELSE v
Answers(S) == {Typed(v) : v \in {w \in S : w.t \in {"undefined", "string"}}}

FlowInputs(f) ==
  CASE f = "ui-stock" ->
         {[form |-> fm, jobVars |-> Nothing] :
            fm \in [productId : ProductIds, productName : {Undefined},
                    currentStock : StockLevels, avgDailySales : DailySales,
                    leadTimeDays : LeadTimes, safetyStockDays : SafetyDays]}
    [] f = "term-stock" ->
         {[form |-> fm, jobVars |-> Nothing] :
            fm \in [productId : Answers(ProductIds), productName : {Empty},
                    currentStock : Answers(StockLevels),
                    avgDailySales : Answers(DailySales),
                    leadTimeDays : Answers(LeadTimes),
                    safetyStockDays : Answers(SafetyDays)]}
    [] f = "ui-finance" ->
         {[form |-> fm, jobVars |-> jv] :
            fm \in [budgetApproved :
                      {Undefined, JStr(StrTrue), JStr(<<"f", "a", "l", "s", "e">>),
                       JBool(TRUE), JBool(FALSE), JStr(StrYes), Empty},
                    budgetAmount :
                      {Undefined, JStr(<<"5", "0", "0">>), JStr(<<"a", "b", "c">>)},
                    priorityLevel : {Undefined, JStr(<<"h", "i", "g", "h">>)},
                    notes : {Undefined}],
            jv \in [recommendedQuantity : {Undefined, JNum(Num(40))},
                    unitCost : {Undefined, JNum(Num(2) + 50)}]}
    [] f = "term-finance" ->
         {[form |-> fm, jobVars |-> jv] :
            fm \in [approvalInput : Yeses,
                    unitCost : {Empty, JStr(<<"2", ".", "5">>)},
                    budget : {Empty, JStr(<<"1", "0", "0">>)},
                    moq : {Empty}, paymentTerms : {Empty}],
            jv \in [orderQuantity : {Undefined, JNum(Num(60))}]}
    [] f = "ui-delivery" ->
         {[form |-> fm, jobVars |-> jv] :
            fm \in [deliveryStatus :
                      {Undefined, JStr(StrDelivered),
                       JStr(<<"p", "e", "n", "d", "i", "n", "g">>), JBool(TRUE)},
                    damageReport :
                      {Undefined, Empty, JStr(<<" ", " ">>),
                       JStr(<<"t", "o", "r", "n">>), JNum(Num(1)), JNum(0),
                       JBool(TRUE), JBool(FALSE)},
                    quantityReceived : {Undefined, JStr(<<"5", "0">>)},
                    notes : {Undefined}],
            jv \in [orderId : {Undefined},
                    orderQuantity : {Undefined, JNum(Num(60))}]}
    [] f = "term-delivery" ->
         {[form |-> fm, jobVars |-> Nothing] :
            fm \in [conformingInput : Yeses,
                    receivedQty : {Empty, JStr(<<"6", "0">>)},
                    damagedQty : {Empty, JStr(<<"5">>)},
                    qualityScore : {Empty}]}
    [] f = "ui-verify" ->
         {[form |-> fm, jobVars |-> jv] :
            fm \in [stockStatus :
                      {Undefined, JStr(StrCorrect), JStr(StrOverstocked),
                       JStr(<<"l", "o", "w">>), JBool(TRUE), Empty},
                    verifiedStock : {Undefined, JStr(<<"9", "0">>)},
                    shelfLocation : {Undefined}, notes : {Undefined}],
            jv \in [productId : {Undefined},
                    expectedStock : {Undefined, JNum(Num(100))},
                    currentStock : {Undefined, JNum(Num(40))},
                    quantityReceived : {Undefined, JNum(Num(50))}]}
    [] f = "term-verify" ->
         {[form |-> fm, jobVars |-> jv] :
            fm \in [verifiedInput : Yeses,
                    physicalCount : {Empty, JStr(<<"3", "5">>)},
                    location : {Empty}],
            jv \in [currentStock : {Undefined, JNum(Num(40))}]}

(* The code of a web-UI completion handler before, and after, its callESB. *)
UiThrows(f, in) == f = "ui-delivery" /\ UiDeliveryThrows(in.form)

UiEsbBody(f, in) ==
  CASE f = "ui-stock" -> UiStockEsbBody(in.form)
    [] f = "ui-finance" -> UiFinanceEsbBody(in.form, in.jobVars)
    [] f = "ui-delivery" -> UiDeliveryEsbBody(in.form, in.jobVars)
    [] f = "ui-verify" -> UiVerifyEsbBody(in.form, in.jobVars)

UiResult(f, in, transformed) ==
  CASE f = "ui-stock" -> UiStockResult(in.form, transformed)
    [] f = "ui-finance" -> UiFinanceResult(in.form, in.jobVars, transformed)
    [] f = "ui-delivery" -> UiDeliveryResult(in.form, in.jobVars, transformed)
    [] f = "ui-verify" -> UiVerifyResult(in.form, in.jobVars, transformed)

TermResult(f, in) ==
  CASE f = "term-stock" -> TermStockResult(in.form)
    [] f = "term-finance" -> TermFinanceResult(in.form, in.jobVars)
    [] f = "term-verify" -> TermVerifyResult(in.form, in.jobVars)
    [] f = "term-delivery" -> TermDeliveryResult(in.form)

UiIdle ==
  /\ server = "none"
  /\ jobType = [k \in Keys |-> "none"]
  /\ jobState = [k \in Keys |-> "created"]
  /\ inFlight = [k \in Keys |-> 0]
  /\ delivered = [k \in Keys |-> 0]
  /\ pendingTasks = [k \in Keys |-> NoTask]
  /\ req = [r \in Reqs |-> IdleReq]
  /\ emitted = [k \in Keys |-> [newTask |-> 0, taskCompleted |-> 0]]
  /\ forwards = [k \in Keys |-> 0]
  /\ writes = [k \in Keys |-> 0]
  /\ lookups = [k \in Keys |-> 0]
  /\ shutdown = Running
  /\ call = NoCall
  /\ client = NoClient

InitForms ==
  /\ UiIdle
  /\ EsbIdle
  /\ flow \in Flows
  /\ input \in FlowInputs(flow)
  /\ fstep = "start"
  /\ esbBody = Nothing
  /\ esbResponse = Nothing
  /\ result = Nothing

(* The handler up to its await callESB(...): a throw ends it with 500. *)
UiCallEsb ==
  /\ flow \in UiFlows
  /\ fstep = "start"
  /\ IF UiThrows(flow, input)
     THEN /\ fstep' = "failed"
          /\ UNCHANGED esbBody
     ELSE /\ fstep' = "called"
          /\ esbBody' = JsonBody(UiEsbBody(flow, input))
  /\ UNCHANGED <<flow, input, esbResponse, result>>
  /\ UNCHANGED <<uiVars, esbVars>>

(* The ESB handler of the posted endpoint answers. *)
EsbTransform ==
  /\ fstep = "called"
  /\ esbResponse' =
       EsbRespond(endpointMapping[FlowEndpoint(flow)], "POST",
                  FlowEndpoint(flow), esbBody, clock, 0).body
  /\ fstep' = "replied"
  /\ UNCHANGED <<flow, input, esbBody, result>>
  /\ UNCHANGED <<uiVars, esbVars>>

(* The handler from the ESB's answer to task.job.complete(result). *)
UiCompleteJob ==
  /\ fstep = "replied"
  /\ result' = UiResult(flow, input, esbResponse.transformed)
  /\ fstep' = "completed"
  /\ UNCHANGED <<flow, input, esbBody, esbResponse>>
  /\ UNCHANGED <<uiVars, esbVars>>

(* A terminal worker's taskHandler: prompts, then job.complete(result). *)
TerminalComplete ==
  /\ flow \in TermFlows
  /\ fstep = "start"
  /\ result' = TermResult(flow, input)
  /\ fstep' = "completed"
  /\ UNCHANGED <<flow, input, esbBody, esbResponse>>
  /\ UNCHANGED <<uiVars, esbVars>>

NextForms ==
  \/ UiCallEsb
  \/ EsbTransform
  \/ UiCompleteJob
  \/ TerminalComplete

SpecForms == InitForms /\ [][NextForms]_vars

(***************************************************************************)
(* The two ESB servers answering a sequence of HTTP requests.              *)
(***************************************************************************)
EsbUrls == {ESB1_URL, ESB2_URL}

(* What the README's two tables list, per server: method and path. *)
ReadmeESB1 ==
  {<<"POST", "/api/identify-products">>,
   <<"POST", "/api/evaluate-profitability">>,
   <<"POST", "/api/compute-replenishment">>,
   <<"POST", "/api/analyze-replenishment">>,
   <<"GET", "/health">>}

ReadmeESB2 ==
  {<<"POST", "/api/propose-promotion">>, <<"POST", "/api/prepare-instore">>,
   <<"POST", "/api/update-physical-prices">>,
   <<"POST", "/api/prepare-marketing">>, <<"POST", "/api/update-prices">>,
   <<"POST", "/api/update-stock-systems">>,
   <<"POST", "/api/create-replenishment">>, <<"POST", "/api/verify-stock">>,
   <<"POST", "/api/process-replenishment">>,
   <<"POST", "/api/check-delivery">>, <<"POST", "/api/handle-return">>,
   <<"GET", "/health">>}

ReadmeListed(baseUrl) == IF baseUrl = ESB1_URL THEN ReadmeESB1 ELSE ReadmeESB2

(* The requests sent: everything the README lists and everything the code *)
(* registers.  A route outside Modelled is sent the empty body only.      *)
Requests ==
  ReadmeESB1 \cup ReadmeESB2
    \cup {<<"POST", p>> : p \in ESB1Routes \cup ESB2Routes}

Bodies ==
  {<<>>,
   [avgDailySales |-> JStr(<<"2", ".", "5">>), currentStock |-> JStr(<<"4", "0">>),
    unitCost |-> JNum(Num(2) + 50), orderQuantity |-> JStr(<<"1", "2", "x">>),
    approved |-> JBool(TRUE), verified |-> JStr(StrYes),
    conforming |-> JBool(TRUE), receivedQty |-> JStr(<<"6", "0">>)],
   [labelsUpdated |-> JStr(<<"2", "5", "0">>), storeCount |-> JStr(<<"5">>),
    allStoresCompleted |-> JStr(<<"f", "a", "l", "s", "e">>),
    budget |-> JStr(<<"1", "0">>), leadTimeDays |-> JStr(<<"3">>)]}

InitEsb ==
  /\ UiIdle
  /\ FormsIdle
  /\ EsbIdle

EsbServe(baseUrl, method, path, body, rnd) ==
  /\ Len(served) < MaxServed
  /\ rnd # 0 => method = "POST" /\ path \in RandomRoutes \cap PostRoutes(baseUrl)
  /\ DOMAIN body # {} => path \in Modelled
  /\ clock' = clock + 1
  /\ served' =
       Append(served,
              [esb |-> baseUrl, method |-> method, path |-> path, body |-> body,
               response |-> EsbRespond(baseUrl, method, path, body, clock, rnd)])
  /\ UNCHANGED <<uiVars, formVars>>

NextEsb ==
  \E baseUrl \in EsbUrls, rq \in Requests, body \in Bodies, rnd \in {0, 1} :
    EsbServe(baseUrl, rq[1], rq[2], body, rnd)

SpecEsb == InitEsb /\ [][NextEsb]_vars

(***************************************************************************)
(* One request to ESB1's /api/evaluate-profitability or                    *)
(* /api/identify-products, with any JSON body of the fields they read.     *)
(***************************************************************************)
RiskLevels ==
  {Undefined, JNull, Empty, JStr(StrHigh), JStr(<<"H", "I", "G", "H">>),
   JStr(<<"H", "i", "g", "h">>), JStr(StrLow), JStr(<<"L", "O", "W">>),
   JStr(StrMedium), JStr(<<"x">>), JNum(Num(5)), JBool(TRUE)}

Margins ==
  {Undefined, JNull, JNum(Num(5)), JNum(Num(10)), JNum(Num(15)),
   JNum(Num(20)), JNum(Num(25)), JStr(<<"2", "5">>), JStr(<<"9", ".", "5">>),
   JStr(<<"2", "0", ".", "5">>), JStr(<<"a", "b", "c">>)}

ProfitabilityBodies ==
  [margin : Margins, riskLevel : RiskLevels,
   approved : {Undefined, JBool(TRUE), JBool(FALSE), Empty,
               JStr(<<"f", "a", "l", "s", "e">>)},
   revenueImpact : {Undefined, JStr(<<"+", "1", "2", "%">>)}]

(* sixteen product IDs, as a comma-separated string and as an array *)
ManyIds == [i \in 1..31 |-> IF i % 2 = 1 THEN "p" ELSE ","]

ProductIdLists ==
  {Undefined, Empty, JStr(<<"a">>), JStr(<<",">>),
   JStr(<<" ", "a", "1", " ", ",", " ", ",", "b", " ">>), JStr(ManyIds),
   JArr(<<JStr(<<"a">>), JStr(<<"B">>)>>),
   JArr(<<JStr(<<" ", "a", " ">>), Empty>>),
   JArr([i \in 1..16 |-> JStr(<<"p">>)]),
   JArr(<<JNum(Num(7))>>), JNum(Num(5))}

Urgencies ==
  {Undefined, Empty, JStr(StrHigh), JStr(<<"H", "I", "G", "H">>),
   JStr(StrMedium), JStr(StrLow), JStr(<<"x">>), JStr(ProtoChars("constructor")),
   JStr(ProtoChars("__proto__")), JStr(ProtoChars("toString")), JNum(Num(1))}

Reasons ==
  {Undefined, JStr(<<"e", "x", "p", "i", "r", "i", "n", "g">>),
   JStr(<<"L", "O", "W", "_", "S", "A", "L", "E", "S">>),
   JStr(<<"o", "v", "e", "r", "s", "t", "o", "c", "k">>),
   JStr(<<"s", "e", "a", "s", "o", "n", "a", "l">>), JStr(<<"o", "t", "h", "e", "r">>),
   JStr(ProtoChars("constructor")), JBool(TRUE)}

IdentifyBodies ==
  [productIds : ProductIdLists, urgency : Urgencies, reason : Reasons]

ServeOne(path, body) ==
  /\ served = <<>>
  /\ EsbServe(ESB1_URL, "POST", path, body, 0)

NextTransform ==
  \/ \E body \in ProfitabilityBodies :
       ServeOne("/api/evaluate-profitability", body)
  \/ \E body \in IdentifyBodies : ServeOne("/api/identify-products", body)

SpecTransform == InitEsb /\ [][NextTransform]_vars

(***************************************************************************)
(* SIGINT.  The handler of each server, process.on('SIGINT', async ...),   *)
(* is a list of calls, each awaited before the next: worker.close() for    *)
(* the workers it names, zeebe.close(), server.close() where present, and  *)
(* process.exit(0).                                                        *)
(***************************************************************************)
CloseWorker(t) == [op |-> "worker.close", worker |-> t]
CloseClient == [op |-> "zeebe.close", worker |-> "none"]
CloseHttp == [op |-> "server.close", worker |-> "none"]
Exit == [op |-> "process.exit", worker |-> "none"]

DataAnalysisSigint ==
  <<CloseWorker("identify-products"),
    CloseWorker("compute-replenishment-quantity"), CloseClient, CloseHttp,
    Exit>>

CommercialSigint ==
  [i \in 1..Len(CommercialWorkers) |-> CloseWorker(CommercialWorkers[i])]
    \o <<CloseClient, CloseHttp, Exit>>

FinanceSigint ==
  <<CloseWorker("evaluate-profitability"), CloseClient, CloseHttp, Exit>>

ITSigint ==
  <<CloseWorker("update-system-prices"), CloseClient, CloseHttp, Exit>>

LogisticsSigint ==
  <<CloseWorker("process-replenishment"), CloseWorker("check-delivery"),
    CloseWorker("handle-return"), CloseClient, Exit>>

MerchandisingSigint ==
  <<CloseWorker("create-replenishment-request"), CloseWorker("verify-stock"),
    CloseClient, Exit>>

SigintHandler(s) ==
  CASE s = "data-analysis" -> DataAnalysisSigint
    [] s = "commercial" -> CommercialSigint
    [] s = "finance" -> FinanceSigint
    [] s = "it" -> ITSigint
    [] s = "logistics" -> LogisticsSigint
    [] s = "merchandising" -> MerchandisingSigint

(* The workers the process created, by task type. *)
CreatedWorkers(s) == {WorkerTypes(s)[i] : i \in 1..Len(WorkerTypes(s))}

(* SIGINT arrives: the handler starts; its first call is made in the next  *)
(* step.                                                                   *)
Sigint ==
  /\ shutdown.pc = 0
  /\ shutdown' = [shutdown EXCEPT !.pc = 1]
  /\ UNCHANGED <<server, jobType, jobState, inFlight, delivered, pendingTasks,
                 req, emitted, forwards, writes, lookups, call, client>>
  /\ UNCHANGED <<formVars, esbVars>>

(* The next call of the handler returns.  openAtClientClose records the    *)
(* workers not yet closed when zeebe.close() is called.                    *)
SigintStep ==
  /\ shutdown.pc \in 1..Len(SigintHandler(server))
  /\ LET stmt == SigintHandler(server)[shutdown.pc]
         next == [shutdown EXCEPT !.pc = @ + 1]
     IN shutdown' =
          CASE stmt.op = "worker.close" ->
                 [next EXCEPT !.closed = @ \cup {stmt.worker}]
            [] stmt.op = "zeebe.close" ->
                 [next EXCEPT !.clientClosed = TRUE,
                              !.openAtClientClose =
                                 CreatedWorkers(server) \ shutdown.closed]
            [] stmt.op = "server.close" -> [next EXCEPT !.httpClosed = TRUE]
            [] stmt.op = "process.exit" -> [next EXCEPT !.exited = TRUE]
  /\ UNCHANGED <<server, jobType, jobState, inFlight, delivered, pendingTasks,
                 req, emitted, forwards, writes, lookups, call, client>>
  /\ UNCHANGED <<formVars, esbVars>>

(* A worker polls for jobs until it is closed or the client is; a handler  *)
(* runs as long as the process does.                                       *)
Polling(k) == jobType[k] \notin shutdown.closed /\ ~shutdown.clientClosed

NextShutdown ==
  \/ Sigint
  \/ SigintStep
  \/ \E k \in Keys : Polling(k) /\ ActivateJob(k)
  \/ \E k \in Keys : ~shutdown.exited /\ taskHandler(k)

SpecShutdown == Init /\ [][NextShutdown]_vars

(***************************************************************************)
(* callESB(endpoint, data) on its own, for any endpoint string: the lookup *)
(* and the throw, or the one axios.post and what it settles with.          *)
(***************************************************************************)
UnknownEndpoints == {"/api/prepare-marketing", "/api/unknown", ""}

Endpoints == DOMAIN endpointMapping \cup ObjectPrototype \cup UnknownEndpoints

(* `${baseUrl}${endpoint}`: the two parts of the URL *)
Url(endpoint) == <<BaseUrl(endpoint).lit, endpoint>>

UnknownEndpointError(endpoint) ==
  [name |-> "Error", message |-> <<"Unknown ESB endpoint: ", endpoint>>]

(* What axios.post can settle with: the response of the ESB the URL       *)
(* addresses (2xx resolves, any other status rejects), or no response.     *)
Outcomes == {"response", "refused", "timeout"}

NoResponse == [status |-> 0, body |-> Nothing]

AxiosSettled(outcome, resp) ==
  IF outcome = "response"
  THEN IF resp.status = 200
       THEN [ok |-> TRUE, data |-> resp.body, error |-> Nothing]
       ELSE [ok |-> FALSE, data |-> Nothing,
             error |-> [name |-> "AxiosError",
                        message |-> <<"Request failed with status code",
                                      resp.status>>]]
  ELSE [ok |-> FALSE, data |-> Nothing,
        error |-> [name |-> "AxiosError", message |-> <<outcome>>]]

(* callESB up to its await: throw on a falsy lookup, else axios.post. *)
callESB(endpoint, data) ==
  /\ call.pc = "idle"
  /\ call' =
       IF ~KnownEndpoint(endpoint)
       THEN [call EXCEPT !.pc = "done", !.endpoint = endpoint, !.data = data,
                         !.thrown = UnknownEndpointError(endpoint)]
       ELSE [call EXCEPT !.pc = "awaitPost", !.endpoint = endpoint,
                         !.data = data,
                         !.posts = Append(@, [url |-> Url(endpoint),
                                              data |-> data,
                                              timeout |-> PostTimeout])]
  /\ UNCHANGED <<server, jobType, jobState, inFlight, delivered, pendingTasks,
                 req, emitted, forwards, writes, lookups, shutdown, client>>
  /\ UNCHANGED <<formVars, esbVars>>

(* axios.post settles: return response.data, or catch and throw error. *)
callESBSettles(outcome) ==
  /\ call.pc = "awaitPost"
  /\ outcome = "response" => BaseUrl(call.endpoint).lit \in EsbUrls
  /\ \E resp \in {IF outcome = "response"
                   THEN EsbRespond(BaseUrl(call.endpoint).lit, "POST",
                                   call.endpoint, call.data, clock, 0)
                   ELSE NoResponse} :
       \E settled \in {AxiosSettled(outcome, resp)} :
         call' =
           IF settled.ok
           THEN [call EXCEPT !.pc = "done", !.settled = settled,
                             !.returned = settled.data]
           ELSE [call EXCEPT !.pc = "done", !.settled = settled,
                             !.thrown = settled.error]
  /\ UNCHANGED <<server, jobType, jobState, inFlight, delivered, pendingTasks,
                 req, emitted, forwards, writes, lookups, shutdown, client>>
  /\ UNCHANGED <<formVars, esbVars>>

InitCallEsb ==
  /\ UiIdle
  /\ FormsIdle
  /\ EsbIdle

NextCallEsb ==
  \/ \E endpoint \in Endpoints, data \in Bodies : callESB(endpoint, data)
  \/ \E outcome \in Outcomes : callESBSettles(outcome)

SpecCallEsb == InitCallEsb /\ [][NextCallEsb]_vars

(***************************************************************************)
(* One browser on the IT UI: io.on('connection') sends it 'initial-tasks', *)
(* io.emit reaches it while it is connected, and it keeps its task list    *)
(* as the Real-Time Flow describes.                                        *)
(***************************************************************************)
MaxQueue == 2

(* socket.emit('initial-tasks', Array.from(pendingTasks.values()).map(...)) *)
ClientConnect ==
  /\ ~client.connected
  /\ client' = [client EXCEPT
       !.connected = TRUE,
       !.queue = <<[type |-> "initial-tasks", jobKey |-> 0,
                    tasks |-> {t.jobKey : t \in ApiTasks}]>>]
  /\ UNCHANGED <<server, jobType, jobState, inFlight, delivered, pendingTasks,
                 req, emitted, forwards, writes, lookups, shutdown, call>>
  /\ UNCHANGED <<formVars, esbVars>>

(* The socket closes; events emitted from now on do not reach the browser. *)
ClientDisconnect ==
  /\ client.connected
  /\ client' = [client EXCEPT !.connected = FALSE, !.queue = <<>>]
  /\ UNCHANGED <<server, jobType, jobState, inFlight, delivered, pendingTasks,
                 req, emitted, forwards, writes, lookups, shutdown, call>>
  /\ UNCHANGED <<formVars, esbVars>>

(* The browser's list after one event. *)
Apply(view, event) ==
  CASE event.type = "initial-tasks" -> event.tasks
    [] event.type = "new-task" -> view \cup {event.jobKey}
    [] event.type = "task-completed" -> view \ {event.jobKey}

(* The browser handles the next event of its socket. *)
ClientReceive ==
  /\ client.queue # <<>>
  /\ client' = [client EXCEPT !.view = Apply(@, Head(client.queue)),
                              !.queue = Tail(@)]
  /\ UNCHANGED <<server, jobType, jobState, inFlight, delivered, pendingTasks,
                 req, emitted, forwards, writes, lookups, shutdown, call>>
  /\ UNCHANGED <<formVars, esbVars>>

InitClient == Init /\ server = "it"

NextClient ==
  \/ Len(client.queue) < MaxQueue /\ Next
  \/ ClientConnect
  \/ ClientDisconnect
  \/ ClientReceive

SpecClient == InitClient /\ [][NextClient]_vars

(***************************************************************************)
(* Vocabulary of the claims.                                               *)
(***************************************************************************)
InHandler(r) == req[r].pc \in {"awaitESB", "awaitComplete", "settled"}

FoundTask(r) == req[r].pc # "idle" /\ req[r].task # NoTask

RequestsFor(k) == {r \in Reqs : req[r].pc # "idle" /\ req[r].key = k}

Succeeded(k) == {r \in RequestsFor(k) : req[r].status = 200}

(***************************************************************************)
(* C2 as stated: every job key is written to pendingTasks at most once and *)
(* is successfully looked up by a completion handler at most once.         *)
(***************************************************************************)
C2_WrittenOnceReadOnce == \A k \in Keys : writes[k] <= 1 /\ lookups[k] <= 1

(***************************************************************************)
(* C2 amended: a key is written once per delivery of its job (again when   *)
(* the orchestrator delivers the same job again after a forward) and is    *)
(* looked up successfully once per completion request that arrives while   *)
(* it is pending (again on a retry or an overlapping request); at most one *)
(* of those requests completes the job, and after its delete the entry is  *)
(* absent unless a later delivery of the job wrote it again.               *)
(***************************************************************************)
C2_WrittenPerDeliveryReadPerRequest ==
  \A k \in Keys :
    /\ writes[k] = delivered[k]
    /\ lookups[k] = Cardinality({r \in RequestsFor(k) : FoundTask(r)})
    /\ Cardinality(Succeeded(k)) <= 1
    /\ \A r \in Succeeded(k) :
         \/ pendingTasks[k] = NoTask
         \/ pendingTasks[k].delivery > req[r].task.delivery

C2_Witness ==
  \E k \in Keys :
    /\ writes[k] >= 2 /\ lookups[k] >= 2
    /\ Succeeded(k) # {} /\ pendingTasks[k] = NoTask

(***************************************************************************)
(* C3 as stated: once a completion handler has started for one request, no *)
(* step of another request's handler and no job-arrival handler runs until *)
(* the first handler has sent its response.                                *)
(***************************************************************************)
C3_SynchronousPerRequest ==
  [][\A r \in Reqs :
       InHandler(r) =>
         /\ \A q \in Reqs \ {r} : req'[q] = req[q]
         /\ writes' = writes]_vars

(***************************************************************************)
(* C3 amended: a handler runs uninterrupted only between its awaits.  A    *)
(* started completion handler that has not responded is suspended at one   *)
(* of its two awaits (the ESB call is out, or job.complete is out), where  *)
(* other handlers may run; what lies between the awaits is one step: the   *)
(* lookup with the ESB call, the ESB result with the job.complete call,    *)
(* and the delete with the 'task-completed' emit and the 200 response.     *)
(***************************************************************************)
C3_AtomicBetweenAwaits ==
  /\ \A r \in Reqs :
       /\ InHandler(r) =>
            \/ req[r].pc = "awaitESB" /\ req[r].esbCalled /\ ~req[r].esbReplied
            \/ /\ req[r].pc \in {"awaitComplete", "settled"}
               /\ req[r].esbReplied /\ req[r].completeCalled
       /\ req[r].status = 200 =>
            \/ pendingTasks[req[r].key] = NoTask
            \/ pendingTasks[req[r].key].delivery > req[r].task.delivery
  /\ \A k \in Keys : emitted[k].taskCompleted = Cardinality(Succeeded(k))

C3_Witness ==
  \E r, q \in Reqs :
    /\ r # q
    /\ InHandler(r)
    /\ req[q].status = 200
    /\ req[q].retry = FALSE
    /\ delivered[req[r].key] >= 2

(***************************************************************************)
(* C4: a failure of the ESB call or of job.complete inside a completion    *)
(* handler ends that request alone with 500 and an error message, leaves   *)
(* pendingTasks as it is and emits nothing; the failed task stays pending  *)
(* until some request completes it, so a retry with the same key can.      *)
(***************************************************************************)
FailureStep(r) ==
  \/ req[r].pc = "awaitESB" /\ req'[r].pc = "done"
  \/ req[r].pc = "settled" /\ ~req[r].completeOk /\ req'[r].pc = "done"

C4_FailureEndsOneRequest ==
  /\ [][\A r \in Reqs :
          FailureStep(r) =>
            /\ req'[r].status = 500
            /\ req'[r].error # "none"
            /\ pendingTasks' = pendingTasks
            /\ emitted' = emitted
            /\ \A q \in Reqs \ {r} : req'[q] = req[q]]_vars
  /\ [](\A r \in Reqs :
          (FoundTask(r) /\ req[r].pc = "done" /\ req[r].status # 200) =>
            \/ pendingTasks[req[r].key] # NoTask
            \/ Succeeded(req[r].key) # {})

C4_Witness ==
  \E r, q \in Reqs :
    /\ r # q /\ req[r].key = req[q].key
    /\ req[r].status = 500 /\ FoundTask(r)
    /\ req[q].retry /\ req[q].status = 200
    /\ \E k \in Keys : k # req[r].key /\ pendingTasks[k] # NoTask

(***************************************************************************)
(* C5: the routing table sends every endpoint to one of the two ESB base   *)
(* URLs, and to the ESB that registers it as a POST route; every endpoint  *)
(* a completion handler passes to callESB is a key of the table, so no     *)
(* request ends with 'Unknown ESB endpoint'.                               *)
(***************************************************************************)
C5_RoutingTableSound ==
  /\ \A e \in DOMAIN endpointMapping :
       /\ endpointMapping[e] \in {ESB1_URL, ESB2_URL}
       /\ e \in PostRoutes(endpointMapping[e])
  /\ \A rt \in CompletionRoutes(server) :
       rt.endpoint \in DOMAIN endpointMapping
  /\ \A r \in Reqs :
       /\ req[r].error # "Unknown ESB endpoint"
       /\ req[r].esbCalled =>
            /\ req[r].route.endpoint \in DOMAIN endpointMapping
            /\ Served(req[r].route.endpoint)

C5_Witness ==
  \E r \in Reqs :
    /\ req[r].esbReplied
    /\ req[r].route.endpoint = "/api/verify-stock"
    /\ BaseUrl(req[r].route.endpoint) = Lit(ESB2_URL)

(***************************************************************************)
(* C7: per key the events come in the documented order.  A completion      *)
(* handler calls the ESB only for a task it found stored (so after that    *)
(* key's set and 'new-task'), calls job.complete only after the ESB        *)
(* answered, and removes the entry and emits 'task-completed' only in the  *)
(* step that follows a successful job.complete; 'task-completed' for a key *)
(* never precedes 'new-task' for it.                                       *)
(***************************************************************************)
C7_EventOrder ==
  /\ [](\A k \in Keys :
          /\ emitted[k].taskCompleted > 0 => emitted[k].newTask > 0
          /\ emitted[k].taskCompleted = Cardinality(Succeeded(k)))
  /\ [](\A r \in Reqs :
          /\ req[r].esbCalled =>
               /\ FoundTask(r)
               /\ emitted[req[r].key].newTask >= req[r].task.delivery
               /\ req[r].task.delivery >= 1
          /\ req[r].esbReplied => req[r].esbCalled
          /\ req[r].completeCalled => req[r].esbReplied
          /\ req[r].completeOk => req[r].completeCalled
          /\ req[r].status = 200 => req[r].completeOk)
  /\ [][\A k \in Keys :
          (pendingTasks[k] # NoTask /\ pendingTasks'[k] = NoTask) =>
            \E r \in Reqs :
              /\ req[r].key = k /\ req[r].pc = "settled" /\ req[r].completeOk
              /\ req'[r].status = 200
              /\ emitted'[k].taskCompleted = emitted[k].taskCompleted + 1]_vars

C7_Witness ==
  \E r \in Reqs :
    /\ req[r].status = 200
    /\ emitted[req[r].key].taskCompleted = 1
    /\ emitted[req[r].key].newTask = 2
    /\ pendingTasks[req[r].key] = NoTask

(***************************************************************************)
(* C8: the taskHandler of a web-UI worker never completes a job: each      *)
(* arrival is one set, one 'new-task' and one job.forward(), and leaves    *)
(* the job uncompleted; job.complete is called, and a job completed, only  *)
(* by a completion handler whose submission carried that key and found it  *)
(* in pendingTasks.                                                        *)
(***************************************************************************)
C8_OnlySubmissionsComplete ==
  /\ [](\A k \in Keys :
          /\ forwards[k] = delivered[k]
          /\ writes[k] = delivered[k]
          /\ emitted[k].newTask = delivered[k]
          /\ jobState[k] = "completed" =>
               \E r \in RequestsFor(k) :
                 FoundTask(r) /\ req[r].completeCalled /\ req[r].completeOk)
  /\ [](\A r \in Reqs : req[r].completeCalled => FoundTask(r))
  /\ [][\A k \in Keys :
          delivered'[k] # delivered[k] =>
            /\ jobState' = jobState
            /\ req' = req
            /\ pendingTasks'[k] # NoTask]_vars

C8_Witness ==
  \E k \in Keys :
    /\ jobState[k] = "completed"
    /\ forwards[k] = 2
    /\ \E r \in RequestsFor(k) : req[r].status = 200

(***************************************************************************)
(* Claims about the replenishment formula and the decision variables.      *)
(***************************************************************************)
StockFlows == {"ui-stock", "term-stock"}

(* max(0, ceil(d * (l + s + 14) - c)), on numbers in hundredths *)
ReorderQuantity(d, l, s, c) == Max(0, Ceil(Mul(d, l + s + Num(14)) - c))

IsBoolean(rec, f) == f \in DOMAIN rec /\ rec[f].t = "boolean"

Answered == 1..Len(served)

(***************************************************************************)
(* C6: every request for a method and path that the README lists under an *)
(* ESB is served by that ESB (answered 200).                               *)
(***************************************************************************)
C6_ReadmeEndpointsServed ==
  \A i \in Answered :
    <<served[i].method, served[i].path>> \in ReadmeListed(served[i].esb) =>
      served[i].response.status = 200

(* What of a response is neither time- nor random-derived. *)
Stable(resp) ==
  IF resp.status = 200 /\ "transformed" \in DOMAIN resp.body
  THEN [status |-> resp.status, success |-> resp.body.success,
        original |-> resp.body.original,
        transformed |-> resp.body.transformed]
  ELSE [status |-> resp.status, success |-> JBool(resp.status = 200),
        original |-> Nothing, transformed |-> resp.body]

SameRequest(a, b) ==
  /\ a.esb = b.esb
  /\ a.method = b.method
  /\ a.path = b.path
  /\ DOMAIN a.body = DOMAIN b.body
  /\ \A f \in DOMAIN a.body : a.body[f] = b.body[f]

C11_GracefulShutdown ==
  /\ shutdown.clientClosed => shutdown.openAtClientClose = {}
  /\ shutdown.exited => shutdown.clientClosed

(***************************************************************************)
(* C12: callESB with an endpoint that is not a key of the routing table    *)
(* throws Error('Unknown ESB endpoint: <endpoint>') and posts nothing;     *)
(* with a key of the table it makes exactly one POST, to the mapped base   *)
(* URL followed by the endpoint, and either returns the response body or   *)
(* throws the error axios rejected with, unchanged.                        *)
(***************************************************************************)
C12_CallEsbContract ==
  call.pc # "idle" =>
    IF call.endpoint \notin DOMAIN endpointMapping
    THEN /\ call.pc = "done"
         /\ call.thrown = UnknownEndpointError(call.endpoint)
         /\ call.posts = <<>>
    ELSE /\ Len(call.posts) = 1
         /\ call.posts[1].url = <<endpointMapping[call.endpoint], call.endpoint>>
         /\ call.pc = "done" =>
              \/ /\ call.settled.ok
                 /\ call.returned = call.settled.data
                 /\ call.thrown = Nothing
              \/ /\ ~call.settled.ok
                 /\ call.thrown = call.settled.error
                 /\ call.returned = Nothing

(* Request r's handler starts in this step. *)
Arrives(r) == req[r].pc = "idle" /\ req'[r].pc # "idle"

AnsweredNotFound(r) ==
  /\ req'[r].pc = "done"
  /\ req'[r].status = 404
  /\ req'[r].error = "Task not found"
  /\ ~req'[r].esbCalled
  /\ ~req'[r].completeCalled
  /\ UNCHANGED <<pendingTasks, emitted, jobState, lookups, writes>>
  /\ \A q \in Reqs \ {r} : req'[q] = req[q]

(***************************************************************************)
(* C13 as stated: a completion request whose jobKey is not a key of        *)
(* pendingTasks is answered 404 'Task not found' and does nothing else: no *)
(* ESB call, no job.complete, pendingTasks and the emitted events          *)
(* unchanged; and a submission arriving after a successful completion of   *)
(* its key gets 404.                                                       *)
(***************************************************************************)
C13_AbsentOrCompletedIs404 ==
  [][\A r \in Reqs :
       /\ Arrives(r) /\ pendingTasks[req'[r].key] = NoTask
            => AnsweredNotFound(r)
       /\ Arrives(r) /\ Succeeded(req'[r].key) # {}
            => AnsweredNotFound(r)]_vars

(* C13 amended: an absent key is answered 404 with no other effect, and a  *)
(* successful completion leaves its key absent, so a later submission for  *)
(* it gets 404 unless a delivery of the job has stored the key again.      *)
C13_AbsentKeyIs404 ==
  [][\A r \in Reqs :
       /\ Arrives(r) /\ pendingTasks[req'[r].key] = NoTask
            => AnsweredNotFound(r)
       /\ req[r].status # 200 /\ req'[r].status = 200
            => pendingTasks'[req[r].key] = NoTask]_vars

C13_Witness ==
  \E r \in Reqs :
    /\ req[r].status = 404
    /\ \E q \in Reqs : q < r /\ req[q].key = req[r].key /\ req[q].status = 200

(* The requests whose handler has called task.job.complete for key k. *)
CompleteCalls(k) == {r \in RequestsFor(k) : req[r].completeCalled}

(***************************************************************************)
(* C14: under any interleaving of completion requests, job.complete is     *)
(* invoked at most once per job key and 'task-completed' is emitted at     *)
(* most once per job key.                                                  *)
(***************************************************************************)
C14_CompleteAtMostOncePerKey ==
  \A k \in Keys :
    /\ Cardinality(CompleteCalls(k)) <= 1
    /\ emitted[k].taskCompleted <= 1

(***************************************************************************)
(* C15: a pending job is completed only by the completion endpoint that    *)
(* belongs to its task type: a request that completed a job came in on the *)
(* route of the task type the job was stored with.                         *)
(***************************************************************************)
C15_CompletedByOwnEndpoint ==
  \A r \in Reqs :
    req[r].completeOk => req[r].route.taskType = req[r].task.taskType

(* The job keys GET /api/tasks and 'initial-tasks' list. *)
Listed == {t.jobKey : t \in ApiTasks}

(* Request r is resuming after a job.complete call that succeeded. *)
Completing(r, k) ==
  req[r].key = k /\ req[r].pc = "settled" /\ req[r].completeOk

(* The entry of k can no longer be completed: its job is completed and no  *)
(* handler is left that would delete it.                                   *)
Stale(k) ==
  /\ k \in Listed
  /\ jobState[k] = "completed"
  /\ ~\E r \in Reqs : Completing(r, k)

(***************************************************************************)
(* C16: an entry leaves pendingTasks only in the step of a completion      *)
(* handler whose job.complete call succeeded for that key (which then      *)
(* answers 200); no failure path, event or re-delivery removes one, so an  *)
(* entry whose job can no longer be completed stays listed by GET          *)
(* /api/tasks and 'initial-tasks' from then on.                            *)
(***************************************************************************)
C16_LeavesOnlyBySuccess ==
  [][\A k \in Keys :
       /\ k \in Listed /\ k \notin Listed'
            => \E r \in Reqs : Completing(r, k) /\ req'[r].status = 200
       /\ Stale(k) => Stale(k)']_vars

C16_Witness ==
  \E k \in Keys :
    /\ Stale(k)
    /\ \E r \in Reqs : req[r].key = k /\ req[r].status = 500
                       /\ req[r].completeCalled

(* The browser's list once it has handled the events on their way to it. *)
RECURSIVE ApplyAll(_, _)
ApplyAll(view, queue) ==
  IF queue = <<>> THEN view
  ELSE ApplyAll(Apply(view, Head(queue)), Tail(queue))

(***************************************************************************)
(* C17: a connected browser that takes 'initial-tasks', adds a key on      *)
(* 'new-task' and removes it on 'task-completed' holds, after every event, *)
(* the job keys of the server's pendingTasks as of that event: its list    *)
(* with the events still on their way applied is the server's key set, and *)
(* is equal to it whenever no event is on the way.                         *)
(***************************************************************************)
C17_ClientViewIsPendingKeys ==
  client.connected =>
    /\ ApplyAll(client.view, client.queue) = Listed
    /\ client.queue = <<>> => client.view = Listed

C17_Witness ==
  /\ client.connected
  /\ client.queue = <<>>
  /\ client.view # {}
  /\ \E k \in Keys : emitted[k].taskCompleted > 0 /\ k \notin client.view

(***************************************************************************)
(* C18: for every stock decision completed through a web UI, the decision  *)
(* recorded by the ESB in esbData agrees with the decision variable:       *)
(* financeApproved is true exactly when esbData.recommendation is          *)
(* 'PROCEED_WITH_ORDER', deliveryConforming equals                         *)
(* esbData.deliveryConforming, stockVerified equals esbData.stockVerified. *)
(***************************************************************************)
C18_EsbDecisionAgrees ==
  fstep = "completed" =>
    /\ flow = "ui-finance" =>
         (result.financeApproved = JBool(TRUE)
            <=> result.esbData.recommendation = Lit("PROCEED_WITH_ORDER"))
    /\ flow = "ui-delivery" =>
         result.deliveryConforming = result.esbData.deliveryConforming
    /\ flow = "ui-verify" =>
         result.stockVerified = result.esbData.stockVerified

(***************************************************************************)
(* Claims about ESB1's two promotion transforms.                           *)
(***************************************************************************)
(* The request served, when it was answered 200 by the route at path. *)
Transformed(path) ==
  /\ served # <<>>
  /\ served[1].path = path
  /\ served[1].response.status = 200

(* riskLevel in lower case, 'medium' when missing or empty; margin as the  *)
(* number it parses to, 0 when it does not parse.                          *)
RiskOf(body) ==
  IF body.riskLevel.t = "string" /\ body.riskLevel.s # <<>>
  THEN ToLowerCase(body.riskLevel.s) ELSE StrMedium

MarginOf(body) ==
  IF Truthy(parseFloat(body.margin)) THEN parseFloat(body.margin).n ELSE 0

RiskClass(body) ==
  IF RiskOf(body) = StrHigh \/ MarginOf(body) < 10 * Scale THEN "HIGH_RISK"
  ELSE IF RiskOf(body) = StrLow /\ MarginOf(body) > 20 * Scale THEN "LOW_RISK"
  ELSE "MODERATE_RISK"

(***************************************************************************)
(* C19: /api/evaluate-profitability classifies risk as HIGH_RISK when      *)
(* riskLevel is 'high' in any case or margin < 10, otherwise LOW_RISK when *)
(* riskLevel is 'low' and margin > 20, otherwise MODERATE_RISK; the        *)
(* recommendation is PROMOTION_REJECTED exactly when approved is falsy,    *)
(* otherwise PROCEED_IMMEDIATELY / _WITH_MONITORING / _WITH_CAUTION for    *)
(* LOW / MODERATE / HIGH risk; approvalStatus is 'REJECTED' exactly when   *)
(* the recommendation is PROMOTION_REJECTED.                               *)
(***************************************************************************)
C19_RiskClassification ==
  Transformed("/api/evaluate-profitability") =>
    LET body == served[1].body
        out == served[1].response.body.transformed
    IN /\ out.riskCategory = Lit(RiskClass(body))
       /\ out.recommendation = Lit("PROMOTION_REJECTED")
            <=> ~Truthy(body.approved)
       /\ Truthy(body.approved) =>
            out.recommendation =
              CASE RiskClass(body) = "LOW_RISK" -> Lit("PROCEED_IMMEDIATELY")
                [] RiskClass(body) = "MODERATE_RISK" ->
                     Lit("PROCEED_WITH_MONITORING")
                [] RiskClass(body) = "HIGH_RISK" ->
                     Lit("PROCEED_WITH_CAUTION")
       /\ out.approvalStatus = Lit("REJECTED")
            <=> out.recommendation = Lit("PROMOTION_REJECTED")

(* 'HIGH' with a margin of 25, approved: high risk, proceed with caution *)
C19_Witness ==
  /\ Transformed("/api/evaluate-profitability")
  /\ served[1].body.riskLevel = JStr(<<"H", "I", "G", "H">>)
  /\ served[1].body.margin = JNum(Num(25))
  /\ served[1].body.approved = JBool(TRUE)
  /\ served[1].response.body.transformed.recommendation =
       Lit("PROCEED_WITH_CAUTION")

(* The product IDs of a body: the pieces of a comma-separated string or    *)
(* the elements of an array; each trimmed, the empty ones dropped, the     *)
(* rest in upper case.                                                     *)
IdsOf(body) ==
  LET ids == IF body.productIds.t = "string"
             THEN [i \in 1..Len(Split(body.productIds.s)) |->
                     JStr(Split(body.productIds.s)[i])]
             ELSE IF body.productIds.t = "array" THEN body.productIds.a
             ELSE <<>>
      trimmed == [i \in 1..Len(ids) |-> JStr(Trim(ids[i].s))]
      kept == SelectSeq(trimmed, Truthy)
  IN [i \in 1..Len(kept) |-> JStr(ToUpperCase(kept[i].s))]

UrgencyPoints(v) ==
  IF v.t # "string" THEN 15
  ELSE CASE ToLowerCase(v.s) = StrHigh -> 30
         [] ToLowerCase(v.s) = StrMedium -> 20
         [] ToLowerCase(v.s) = StrLow -> 10
         [] OTHER -> 15

ReasonPoints(v) ==
  IF v.t # "string" THEN 15
  ELSE CASE ToLowerCase(v.s) = <<"e", "x", "p", "i", "r", "i", "n", "g">> -> 40
         [] ToLowerCase(v.s) = <<"l", "o", "w", "_", "s", "a", "l", "e", "s">>
              -> 30
         [] ToLowerCase(v.s) = <<"o", "v", "e", "r", "s", "t", "o", "c", "k">>
              -> 25
         [] ToLowerCase(v.s) = <<"s", "e", "a", "s", "o", "n", "a", "l">> -> 20
         [] OTHER -> 15

(***************************************************************************)
(* C20: /api/identify-products returns normalizedIds equal, position by    *)
(* position, to the upper-cased trimmed non-empty product IDs, with        *)
(* productCount their number; analysisScore = min(100, urgencyScore +      *)
(* reasonScore + 2 * count), never above 100; priority is 'high' when the  *)
(* uncapped sum is above 60, 'medium' when above 40, 'low' otherwise.      *)
(***************************************************************************)
C20_IdentifyProducts ==
  Transformed("/api/identify-products") =>
    LET body == served[1].body
        out == served[1].response.body.transformed
        count == Len(IdsOf(body))
        sum == UrgencyPoints(body.urgency) + ReasonPoints(body.reason)
                 + 2 * count
    IN /\ out.normalizedIds = JArr(IdsOf(body))
       /\ out.productCount = JNum(Num(count))
       /\ out.analysisScore = JNum(Num(IF sum < 100 THEN sum ELSE 100))
       /\ out.priority = IF sum > 60 THEN Lit("high")
                         ELSE IF sum > 40 THEN Lit("medium")
                         ELSE Lit("low")

====
